---------------------------- MODULE Spec2Model ----------------------------
(***************************************************************************)
(* Cost Analytics Engine of cloud-cost-optimizer:                          *)
(*   EnterpriseOptimizer  (src/ml/advanced_optimizer.py)                   *)
(*   CostPredictor        (src/ml/cost_predictor.py)                       *)
(*   CostAnomalyDetector  (src/ml/anomaly_detector.py)                     *)
(*   ResourceOptimizer    (src/ml/optimizer.py)                            *)
(*                                                                         *)
(* Numbers.  Money and budgets are integers.  A product with a percentage  *)
(* lever (current_monthly * 0.15) is kept exactly, in hundredths of the    *)
(* money unit; anomaly scores and accuracies are kept in hundredths        *)
(* (-0.5 is -50, 0.85 is 85).  Arithmetic is that of the reals: the last-  *)
(* bit rounding of binary64 is not modelled.                               *)
(*                                                                         *)
(* Each class is one specification over its own variables (SpecBudget,     *)
(* SpecForecast, SpecDetect); the variables of the other classes stay at   *)
(* their constructed values.                                               *)
(***************************************************************************)
EXTENDS Integers, Sequences, FiniteSets, TLC

VARIABLES
    eo_call,              \* EnterpriseOptimizer: the last call and its arguments
    eo_ret,               \* EnterpriseOptimizer: what that call returned or raised
    eo_fields,            \* EnterpriseOptimizer: scaler, anomaly_detector, budget_thresholds
    cp_model,             \* CostPredictor.model
    cp_is_trained,        \* CostPredictor.is_trained
    cp_last_training_date,\* CostPredictor.last_training_date
    cp_model_accuracy,    \* CostPredictor.model_accuracy
    cp_clock,             \* datetime.now(), as a tick counter
    cp_file,              \* the pickle written by save_model
    cp_call,              \* CostPredictor: the last call and its arguments
    cp_ret,               \* CostPredictor: what that call returned or raised
    ad_model,             \* CostAnomalyDetector.model (the IsolationForest)
    ad_scaler,            \* CostAnomalyDetector.scaler (the StandardScaler)
    ad_is_trained,        \* CostAnomalyDetector.is_trained
    ad_feature_names,     \* CostAnomalyDetector.feature_names
    ad_baseline_stats,    \* CostAnomalyDetector.baseline_stats
    ad_call,              \* CostAnomalyDetector: the last call and its arguments
    ad_ret,               \* CostAnomalyDetector: what that call returned or raised
    cp_completed,         \* history: a train_model call of this forecaster has returned
    ad_completed,         \* history: a train call of this detector has returned
    ro_call,              \* ResourceOptimizer: the last call and its arguments
    ro_ret,               \* ResourceOptimizer: what that call returned
    ro_fields,            \* ResourceOptimizer: scaler, kmeans, anomaly_detector, optimization_rules
    ad_train,             \* a train call in progress on the detector: its position and locals
    ad_detect             \* a detect_anomalies call in progress: its position and locals

eoVars == <<eo_call, eo_ret, eo_fields>>
cpVars == <<cp_model, cp_is_trained, cp_last_training_date, cp_model_accuracy,
            cp_clock, cp_file, cp_call, cp_ret, cp_completed>>
adVars == <<ad_model, ad_scaler, ad_is_trained, ad_feature_names,
            ad_baseline_stats, ad_call, ad_ret, ad_completed>>
roVars == <<ro_call, ro_ret, ro_fields>>
ccVars == <<ad_train, ad_detect>>
vars == <<eoVars, cpVars, adVars, roVars, ccVars>>

(***************************************************************************)
(* Bounds of the model.                                                    *)
(***************************************************************************)
\* rows of a cost table handed to one call
MaxRows == 2
\* largest cost of one record
MaxCost == 2
\* budgets are taken this far on both sides of every bracket boundary
BudgetSlack == 1

(***************************************************************************)
(* Python values.                                                          *)
(***************************************************************************)
\* None, and a value that is not None, as sequences of length 0 and 1
None == <<>>
Some(v) == <<v>>

RECURSIVE SeqSum(_)
SeqSum(s) == IF s = <<>> THEN 0 ELSE Head(s) + SeqSum(Tail(s))

SetMin(S) == CHOOSE x \in S : \A y \in S : x <= y
SetMax(S) == CHOOSE x \in S : \A y \in S : x >= y

\* a cost column of n rows, all of one cost but the last
ConstantThenLast(n, base, last) == [i \in 1..n |-> IF i = n THEN last ELSE base]

(***************************************************************************)
(* EnterpriseOptimizer                                                     *)
(***************************************************************************)
Categories == {"small", "medium", "large", "enterprise"}

\* self.budget_thresholds, in the dict's insertion order; the upper end of the
\* last bracket is float('inf')
budget_thresholds ==
    << [category |-> "small",      min_budget |-> 100000,  max_budget |-> 500000,  inf |-> FALSE],
       [category |-> "medium",     min_budget |-> 500000,  max_budget |-> 2000000, inf |-> FALSE],
       [category |-> "large",      min_budget |-> 2000000, max_budget |-> 5000000, inf |-> FALSE],
       [category |-> "enterprise", min_budget |-> 5000000, max_budget |-> 0,       inf |-> TRUE] >>

\* min_budget <= monthly_budget < max_budget
InBracket(t, monthly_budget) ==
    /\ t.min_budget <= monthly_budget
    /\ (t.inf \/ monthly_budget < t.max_budget)

\* the upper end taken inclusive and the lower exclusive
InBracketUpperInclusive(t, monthly_budget) ==
    /\ t.min_budget < monthly_budget
    /\ (t.inf \/ monthly_budget <= t.max_budget)

\* the loop falls through to 'small'
analyze_budget_category_fallsmall(monthly_budget) ==
    LET hits == {i \in DOMAIN budget_thresholds :
                    InBracket(budget_thresholds[i], monthly_budget)}
    IN  IF hits = {} THEN "small" ELSE budget_thresholds[SetMin(hits)].category

\* brackets closed at the upper end
analyze_budget_category_inclusive(monthly_budget) ==
    LET hits == {i \in DOMAIN budget_thresholds :
                    InBracketUpperInclusive(budget_thresholds[i], monthly_budget)}
    IN  IF hits = {} THEN "enterprise" ELSE budget_thresholds[SetMin(hits)].category

\* the first bracket, in order, that holds the budget; 'enterprise' if none does
analyze_budget_category(monthly_budget) ==
    LET hits == {i \in DOMAIN budget_thresholds :
                    InBracket(budget_thresholds[i], monthly_budget)}
    IN  IF hits = {} THEN "enterprise" ELSE budget_thresholds[SetMin(hits)].category

\* the reserved-instance lever of small and medium budgets lost
LeversNoReserved(category) ==
    IF category \in {"small", "medium"} THEN <<15>>
    ELSE IF category = "large" THEN <<20, 15, 10>>
    ELSE <<25, 8, 12>>

\* the percentage levers summed for a category (0.15 is 15)
Levers(category) ==
    IF category \in {"small", "medium"} THEN <<15, 20>>
    ELSE IF category = "large" THEN <<20, 15, 10>>
    ELSE <<25, 8, 12>>

Recommendations(category) ==
    IF category \in {"small", "medium"} THEN
        << "Implement auto-scaling for development environments",
           "Purchase reserved instances for stable workloads",
           "Right-size oversized instances based on utilization" >>
    ELSE IF category = "large" THEN
        << "Implement spot instance strategies for non-critical workloads",
           "Optimize data lifecycle and storage tiers",
           "Deploy advanced monitoring and automated scaling",
           "Implement cost allocation tags for chargeback" >>
    ELSE
        << "Deploy enterprise discount programs and volume commitments",
           "Implement multi-cloud cost arbitrage strategies",
           "Advanced workload placement optimization",
           "Enterprise-grade FinOps governance framework",
           "Automated cost anomaly detection and remediation" >>

_get_implementation_timeline(category) ==
    IF category = "small" THEN
        [quick_wins |-> "1-2 weeks", rightsizing |-> "1 month",
         reserved_instances |-> "2-3 months"]
    ELSE IF category = "large" THEN
        [assessment |-> "1 month", pilot_implementation |-> "2-3 months",
         full_rollout |-> "6-9 months"]
    ELSE IF category = "enterprise" THEN
        [strategy_development |-> "2 months", pilot_programs |-> "3-6 months",
         enterprise_rollout |-> "12-18 months"]
    ELSE
        [quick_wins |-> "2-3 weeks", automation |-> "2 months",
         governance |-> "3-4 months"]

\* the year taken as ten months
AnnualSavingsTen(projected_savings) == projected_savings * 10

\* projected_savings * 12
AnnualSavings(projected_savings) == projected_savings * 12

\* projected_savings / current_monthly * 100.  projected_savings is in hundredths,
\* so the quotient of the two is the percentage.  A zero total is 0.0/0 in numpy
\* arithmetic: nan.
CostReductionPercentage(projected_savings, current_monthly) ==
    IF current_monthly = 0
    THEN [nan |-> TRUE, value |-> 0]
    ELSE [nan |-> FALSE, value |-> projected_savings \div current_monthly]

\* optimize_for_budget.  costs_df is [cost: the cost column, numeric: whether the
\* column has a numeric dtype].  The sum of an object column of Python ints is a
\* Python int, and 0.0 / 0 then raises where numpy returns nan.
optimize_for_budget(costs_df, monthly_budget) ==
    LET category == analyze_budget_category(monthly_budget)
        current_monthly == SeqSum(costs_df.cost)
        levers == Levers(category)
        projected_savings ==
            SeqSum([i \in DOMAIN levers |-> current_monthly * levers[i]])
    IN  IF current_monthly = 0 /\ ~costs_df.numeric
        THEN [status |-> "ZeroDivisionError"]
        ELSE [status |-> "ok",
              budget_category |-> category,
              current_monthly_cost |-> current_monthly,
              projected_monthly_savings |-> projected_savings,
              cost_reduction_percentage |->
                  CostReductionPercentage(projected_savings, current_monthly),
              annual_savings |-> AnnualSavings(projected_savings),
              recommendations |-> Recommendations(category),
              implementation_timeline |-> _get_implementation_timeline(category)]

\* the budgets tried: around zero and around every bracket boundary, and one
\* inside each bracket
Boundaries == {0} \cup {budget_thresholds[i].min_budget : i \in DOMAIN budget_thresholds}
Budgets ==
    {b + d : b \in Boundaries, d \in (-BudgetSlack)..BudgetSlack}
    \cup {250000, 1500000, 3000000, 7000000}

CostValues == 0..MaxCost
CostColumns ==
    {ConstantThenLast(n, base, last) :
        n \in 0..MaxRows, base \in CostValues, last \in CostValues}
CostFrames == [cost : CostColumns, numeric : BOOLEAN]

NoCall == [op |-> "none"]

(***************************************************************************)
(* The estimators the two optimizers hold.  What a fit leaves inside an    *)
(* estimator is the library's; the model keeps whether it is fitted and    *)
(* the number of rows it was fitted on (n_samples_seen_).                  *)
(***************************************************************************)
\* StandardScaler(), IsolationForest(contamination=0.1, random_state=42)
NewEstimator == [fitted |-> FALSE, n_samples |-> 0]
\* what fit leaves in the estimator: fit resets it first, so a fit that raises
\* on its data leaves it unfitted
EstimatorFit(n, raises) ==
    IF raises THEN NewEstimator ELSE [fitted |-> TRUE, n_samples |-> n]

\* ResourceOptimizer._load_optimization_rules, the utilization thresholds
optimization_rules ==
    [cpu_utilization |-> [underutilized |-> 30, overutilized |-> 80],
     memory_utilization |-> [underutilized |-> 40, overutilized |-> 85]]

\* EnterpriseOptimizer.__init__
EnterpriseOptimizer_init ==
    [scaler |-> NewEstimator, anomaly_detector |-> NewEstimator,
     budget_thresholds |-> budget_thresholds]

\* ResourceOptimizer.__init__
ResourceOptimizer_init ==
    [scaler |-> NewEstimator, kmeans |-> None, anomaly_detector |-> NewEstimator,
     optimization_rules |-> optimization_rules]


InitEO ==
    /\ eo_call = NoCall
    /\ eo_ret = None
    /\ eo_fields = EnterpriseOptimizer_init

AnalyzeBudgetCategory(budgets) ==
    \E monthly_budget \in budgets :
        /\ eo_call' = [op |-> "analyze_budget_category",
                       monthly_budget |-> monthly_budget]
        /\ eo_ret' = Some(analyze_budget_category(monthly_budget))
        /\ UNCHANGED <<eo_fields, cpVars, adVars, roVars, ccVars>>

OptimizeForBudget(frames, budgets) ==
    \E costs_df \in frames, monthly_budget \in budgets :
        /\ eo_call' = [op |-> "optimize_for_budget", costs_df |-> costs_df,
                       monthly_budget |-> monthly_budget]
        /\ eo_ret' = Some(optimize_for_budget(costs_df, monthly_budget))
        /\ UNCHANGED <<eo_fields, cpVars, adVars, roVars, ccVars>>

NextEO == AnalyzeBudgetCategory(Budgets) \/ OptimizeForBudget(CostFrames, Budgets)

(***************************************************************************)
(* CostPredictor                                                           *)
(***************************************************************************)
\* the longest history tried by train_model, in distinct dates
MaxDays == 15
\* records sharing the first date, beyond its first record
MaxDup == 1
\* longest horizon asked of predict
MaxHorizon == 2
\* the fitted model's level lies this far on either side of zero
MaxRaw == 1
\* calls of train_model that reach datetime.now()
MaxClock == 2

\* "Need at least 14 days of data for training"
MinTrainingDays == 14
\* the accuracy assumed when its estimation raises
DefaultAccuracy == 85

\* A cost history: one record [date, cost, nan] per row; nan marks a missing cost.
\* History(n, dup, nandate, rev): the dates 1..n, one record each, dup more
\* records on date 1, the costs of date nandate missing, rows in descending
\* order of date when rev.
HistoryRow(d, nandate) == [date |-> d, cost |-> 1 + (d % 2), nan |-> (d = nandate)]

History(n, dup, nandate, rev) ==
    LET k == IF n = 0 THEN 0 ELSE dup
        asc == [i \in 1..(n + k) |->
                   IF i <= k THEN HistoryRow(1, nandate)
                   ELSE HistoryRow(i - k, nandate)]
    IN  IF rev THEN [i \in 1..(n + k) |-> asc[n + k + 1 - i]] ELSE asc

\* the histories tried: empty, and from one date short of the minimum up to
\* MaxDays dates; each with its duplicates, with a missing cost, or reversed
HistoryDays == {0} \cup ((MinTrainingDays - 1)..MaxDays)
Histories ==
    {History(n, dup, 0, FALSE) : n \in HistoryDays, dup \in 0..MaxDup}
    \cup {History(n, 0, 1, FALSE) : n \in HistoryDays}
    \cup {History(n, 0, 0, TRUE) : n \in HistoryDays}

\* groupby('date')['cost'].sum(): the sum of a date's costs, missing ones skipped
\* (an all-missing date sums to 0, which is not missing)
GroupSum(cost_data, d) ==
    LET group == SelectSeq(cost_data, LAMBDA r : r.date = d /\ ~r.nan)
    IN  [nan |-> FALSE, value |-> SeqSum([i \in DOMAIN group |-> group[i].cost])]

\* the elements of a finite set of integers in ascending order
RECURSIVE Ascending(_)
Ascending(S) == IF S = {} THEN <<>> ELSE <<SetMin(S)>> \o Ascending(S \ {SetMin(S)})

\* one row per record instead of one per date
prepare_data_per_record(cost_data) ==
    [i \in DOMAIN cost_data |-> [ds |-> cost_data[i].date, y |-> cost_data[i].cost]]

\* prepare_data: one row [ds, y] per distinct date, rows with a missing y dropped,
\* in ascending order of ds
prepare_data(cost_data) ==
    LET dates == {cost_data[i].date : i \in DOMAIN cost_data}
        kept == {d \in dates : ~GroupSum(cost_data, d).nan}
        order == Ascending(kept)
    IN  [i \in DOMAIN order |-> [ds |-> order[i], y |-> GroupSum(cost_data, order[i]).value]]

\* Prophet(...) with the monthly seasonality added, not yet fitted
NewProphet == [fitted |-> FALSE, history_dates |-> <<>>]

\* model.fit(df_prophet)
Fit(m, df_prophet) ==
    [fitted |-> TRUE, history_dates |-> [i \in DOMAIN df_prophet |-> df_prophet[i].ds]]

\* model.make_future_dataframe(periods): the history's dates, then the next
\* periods days
make_future_dataframe(m, periods) ==
    LET h == m.history_dates
        last == h[Len(h)]
    IN  h \o [i \in 1..periods |-> last + i]

\* what the fitted model answers for one call of model.predict(future): the
\* level of yhat (it rises by one a day), and where the two interval ends lie
\* from yhat.  Prophet takes the ends as the lower and the upper quantile of
\* simulated paths, so yhat_lower <= yhat_upper, and yhat from the fitted
\* components: nothing places yhat between the two.
RawValues == (-MaxRaw)..MaxRaw
ForecastShapes ==
    {s \in [level : RawValues, below : {-1, 0, 1}, above : {-1, 0, 1}] :
        s.below + s.above >= 0}

\* model.predict(future)
ModelPredict(future, shape) ==
    [i \in DOMAIN future |->
        LET yhat == shape.level + i - Len(future)
        IN  [ds |-> future[i], yhat |-> yhat,
             yhat_lower |-> yhat - shape.below, yhat_upper |-> yhat + shape.above]]

\* DataFrame.tail(n)
TailRows(s, n) == IF n >= Len(s) THEN s ELSE SubSeq(s, Len(s) - n + 1, Len(s))

\* Series.clip(lower=0)
ClipLower0(x) == IF x < 0 THEN 0 ELSE x

\* the rows predict returns: the last days_ahead rows of the forecast, renamed and
\* clipped at zero
Predictions(forecast, days_ahead) ==
    LET t == TailRows(forecast, days_ahead)
    IN  [i \in DOMAIN t |->
            [date |-> t[i].ds,
             predicted_cost |-> ClipLower0(t[i].yhat),
             confidence_lower |-> ClipLower0(t[i].yhat_lower),
             confidence_upper |-> ClipLower0(t[i].yhat_upper)]]

\* the outcomes of the estimation in _calculate_accuracy: a mean absolute
\* percentage error in hundredths, NaN, or the estimation raises
MapeValues == {0, 50, 100, 250}
AccuracyOutcomes ==
    {[raised |-> FALSE, nan |-> FALSE, mape |-> v] : v \in MapeValues}
    \cup {[raised |-> FALSE, nan |-> TRUE, mape |-> 0],
          [raised |-> TRUE, nan |-> FALSE, mape |-> 0]}

\* the estimate taken as the accuracy without the max(0, ...)
_calculate_accuracy_unclipped(estimate) ==
    IF estimate.raised THEN DefaultAccuracy ELSE 100 - estimate.mape

\* _calculate_accuracy: the model_accuracy it leaves, max(0, 1 - mape), or the
\* default when the estimation raises; max(0, nan) is 0
_calculate_accuracy(estimate) ==
    IF estimate.raised THEN DefaultAccuracy
    ELSE IF estimate.nan THEN 0
    ELSE IF 100 - estimate.mape > 0 THEN 100 - estimate.mape ELSE 0

InitCP ==
    /\ cp_model = None
    /\ cp_is_trained = FALSE
    /\ cp_last_training_date = None
    /\ cp_model_accuracy = None
    /\ cp_clock = 0
    /\ cp_file = None
    /\ cp_call = NoCall
    /\ cp_ret = None
    /\ cp_completed = FALSE

\* train_model, fewer than 14 rows after prepare_data: raises before self.model is set
TrainModelInsufficient(H) ==
    \E cost_data \in H :
        /\ Len(prepare_data(cost_data)) < MinTrainingDays
        /\ cp_call' = [op |-> "train_model", cost_data |-> cost_data]
        /\ cp_ret' = Some([status |-> "ValueError",
                           message |-> "Need at least 14 days of data for training"])
        /\ UNCHANGED <<cp_model, cp_is_trained, cp_last_training_date,
                       cp_model_accuracy, cp_clock, cp_file, cp_completed>>
        /\ UNCHANGED <<eoVars, adVars, roVars, ccVars>>

\* train_model, model.fit raises: self.model is already the new, unfitted Prophet
TrainModelFitFails(H) ==
    \E cost_data \in H :
        /\ Len(prepare_data(cost_data)) >= MinTrainingDays
        /\ cp_call' = [op |-> "train_model", cost_data |-> cost_data]
        /\ cp_model' = Some(NewProphet)
        /\ cp_ret' = Some([status |-> "Exception", message |-> "fit failed"])
        /\ UNCHANGED <<cp_is_trained, cp_last_training_date, cp_model_accuracy,
                       cp_clock, cp_file, cp_completed>>
        /\ UNCHANGED <<eoVars, adVars, roVars, ccVars>>

\* train_model, the fit succeeds; _calculate_accuracy sets model_accuracy to its
\* estimate, or to 0.85 when the estimation raises
TrainModelSucceeds(H, A) ==
    \E cost_data \in H, estimate \in A :
        /\ cp_clock < MaxClock
        /\ Len(prepare_data(cost_data)) >= MinTrainingDays
        /\ cp_call' = [op |-> "train_model", cost_data |-> cost_data]
        /\ cp_model' = Some(Fit(NewProphet, prepare_data(cost_data)))
        /\ cp_model_accuracy' = Some(_calculate_accuracy(estimate))
        /\ cp_is_trained' = TRUE
        /\ cp_clock' = cp_clock + 1
        /\ cp_last_training_date' = Some(cp_clock')
        /\ cp_ret' = Some([status |-> "ok", warned |-> estimate.raised])
        /\ cp_completed' = TRUE
        /\ UNCHANGED cp_file
        /\ UNCHANGED <<eoVars, adVars, roVars, ccVars>>

\* predict with the is_trained check lost
PredictAllowedAlways == TRUE

\* whether predict goes past its first check
PredictAllowed == cp_is_trained

\* predict on an untrained instance
PredictNotTrained(N) ==
    \E days_ahead \in N :
        /\ ~PredictAllowed
        /\ cp_call' = [op |-> "predict", days_ahead |-> days_ahead]
        /\ cp_ret' = Some([status |-> "ValueError",
                           message |-> "Model must be trained before making predictions"])
        /\ UNCHANGED <<cp_model, cp_is_trained, cp_last_training_date,
                       cp_model_accuracy, cp_clock, cp_file, cp_completed>>
        /\ UNCHANGED <<eoVars, adVars, roVars, ccVars>>

\* predict past the check, self.model None or not fitted: make_future_dataframe
\* raises, and predict raises it again
PredictUnfitted(N) ==
    \E days_ahead \in N :
        /\ PredictAllowed
        /\ (cp_model = None \/ ~cp_model[1].fitted)
        /\ cp_call' = [op |-> "predict", days_ahead |-> days_ahead]
        /\ cp_ret' = Some([status |-> "Exception", message |-> "Model has not been fit."])
        /\ UNCHANGED <<cp_model, cp_is_trained, cp_last_training_date,
                       cp_model_accuracy, cp_clock, cp_file, cp_completed>>
        /\ UNCHANGED <<eoVars, adVars, roVars, ccVars>>

\* predict on a fitted model
PredictReturns(N, R) ==
    \E days_ahead \in N, shape \in R :
        /\ PredictAllowed
        /\ cp_model # None /\ cp_model[1].fitted
        /\ cp_call' = [op |-> "predict", days_ahead |-> days_ahead,
                       last_history_date |->
                           cp_model[1].history_dates[Len(cp_model[1].history_dates)]]
        /\ LET future == make_future_dataframe(cp_model[1], days_ahead)
               forecast == ModelPredict(future, shape)
           IN  cp_ret' = Some([status |-> "ok",
                               predictions |-> Predictions(forecast, days_ahead)])
        /\ UNCHANGED <<cp_model, cp_is_trained, cp_last_training_date,
                       cp_model_accuracy, cp_clock, cp_file, cp_completed>>
        /\ UNCHANGED <<eoVars, adVars, roVars, ccVars>>

\* save_model: refuses an untrained instance, else pickles the four fields
SaveModel ==
    /\ cp_call' = [op |-> "save_model"]
    /\ IF ~cp_is_trained
       THEN /\ cp_ret' = Some([status |-> "ValueError",
                               message |-> "No trained model to save"])
            /\ UNCHANGED cp_file
       ELSE /\ cp_file' = Some([model |-> cp_model, is_trained |-> cp_is_trained,
                                last_training_date |-> cp_last_training_date,
                                model_accuracy |-> cp_model_accuracy])
            /\ cp_ret' = Some([status |-> "ok"])
    /\ UNCHANGED <<cp_model, cp_is_trained, cp_last_training_date,
                   cp_model_accuracy, cp_clock, cp_completed>>
    /\ UNCHANGED <<eoVars, adVars, roVars, ccVars>>

\* load_model: the four fields from the pickle, or FileNotFoundError
LoadModel ==
    /\ cp_call' = [op |-> "load_model"]
    /\ IF cp_file = None
       THEN /\ cp_ret' = Some([status |-> "FileNotFoundError"])
            /\ UNCHANGED <<cp_model, cp_is_trained, cp_last_training_date,
                           cp_model_accuracy>>
       ELSE /\ cp_model' = cp_file[1].model
            /\ cp_is_trained' = cp_file[1].is_trained
            /\ cp_last_training_date' = cp_file[1].last_training_date
            /\ cp_model_accuracy' = cp_file[1].model_accuracy
            /\ cp_ret' = Some([status |-> "ok"])
    /\ UNCHANGED <<cp_clock, cp_file, cp_completed>>
    /\ UNCHANGED <<eoVars, adVars, roVars, ccVars>>

NextCP(H, A, N, R) ==
    \/ TrainModelInsufficient(H)
    \/ TrainModelFitFails(H)
    \/ TrainModelSucceeds(H, A)
    \/ PredictNotTrained(N)
    \/ PredictUnfitted(N)
    \/ PredictReturns(N, R)

NextCPFile == SaveModel \/ LoadModel

NextForecast == NextCP(Histories, AccuracyOutcomes, 0..MaxHorizon, ForecastShapes)


(***************************************************************************)
(* CostAnomalyDetector                                                     *)
(***************************************************************************)
\* anomaly scores are taken this far (in hundredths) on both sides of every
\* severity threshold
ScoreSlack == 1

\* A cost table: rows [timestamp, cost] in ascending order of timestamp,
\* whether it has the optional usage_hours column, and whether it has the
\* columns prepare_features reads (timestamp, cost, provider).
TableRows(cost) == [i \in DOMAIN cost |-> [timestamp |-> i, cost |-> cost[i]]]
\* the cost columns tried: no row, one row, or MaxRows rows, all of one cost
\* but the last
DetectorColumns ==
    {ConstantThenLast(n, base, last) :
        n \in {0, 1, MaxRows}, base \in CostValues, last \in CostValues}
\* the tables tried: every column without usage_hours, and the columns of at
\* most one row with it
CostTables ==
    {[rows |-> TableRows(c), usage_hours |-> FALSE, has_columns |-> TRUE] :
        c \in DetectorColumns}
    \cup {[rows |-> TableRows(c), usage_hours |-> TRUE, has_columns |-> TRUE] :
            c \in {d \in DetectorColumns : Len(d) <= 1}}
    \cup {[rows |-> TableRows(<<1>>), usage_hours |-> FALSE, has_columns |-> FALSE]}

\* the candidate features of train, in its order
numeric_features ==
    << "log_cost", "hour", "day_of_week", "day_of_month", "month",
       "provider_encoded", "cost_zscore", "usage_hours_normalized" >>

\* prepare_features: a KeyError when a column it reads is missing; else one
\* feature row per record and the columns of the result.  Of a row's features
\* the model keeps the cost the others are derived from.
prepare_features(cost_data) ==
    IF ~cost_data.has_columns
    THEN [status |-> "KeyError", columns |-> {}, rows |-> <<>>]
    ELSE [status |-> "ok",
          columns |-> {"timestamp", "cost", "provider", "hour", "day_of_week",
                       "day_of_month", "month", "log_cost", "provider_encoded",
                       "cost_rolling_mean_7d", "cost_rolling_std_7d",
                       "cost_rolling_median_7d", "cost_zscore"}
                      \cup (IF cost_data.usage_hours
                            THEN {"usage_hours", "usage_hours_normalized"} ELSE {}),
          rows |-> cost_data.rows]

\* [f for f in numeric_features if f in df_features.columns]
AvailableFeatures(columns) ==
    SelectSeq(numeric_features, LAMBDA f : f \in columns)

\* a sequence of integers in ascending order
RECURSIVE SortAscending(_)
SortAscending(s) ==
    IF s = <<>> THEN <<>>
    ELSE LET m == SetMin({s[i] : i \in DOMAIN s})
             k == SetMin({i \in DOMAIN s : s[i] = m})
         IN  <<m>> \o SortAscending([i \in 1..(Len(s) - 1) |-> IF i < k THEN s[i] ELSE s[i + 1]])

CostsOf(rows) == [i \in DOMAIN rows |-> rows[i].cost]

\* Series.quantile(0.95) with linear interpolation, times 20: the position is
\* 0.95 * (n - 1) = (19 * (n - 1)) / 20
Quantile95x20(costs) ==
    LET s == SortAscending(costs)
        i == (19 * (Len(s) - 1)) \div 20
        r == (19 * (Len(s) - 1)) % 20
    IN  IF r = 0 THEN 20 * s[i + 1]
        ELSE 20 * s[i + 1] + r * (s[i + 2] - s[i + 1])

\* Series.median(), times 2
Median2(costs) ==
    LET s == SortAscending(costs)
        n == Len(s)
    IN  IF n % 2 = 1 THEN 2 * s[(n + 1) \div 2] ELSE s[n \div 2] + s[n \div 2 + 1]

\* self.baseline_stats after a training; the mean is cost_sum / training_samples.
\* std_cost is not kept: nothing modelled reads it.
BaselineStats(rows) ==
    [cost_sum |-> SeqSum(CostsOf(rows)),
     median_cost_x2 |-> Median2(CostsOf(rows)),
     p95_cost_x20 |-> Quantile95x20(CostsOf(rows)),
     training_samples |-> Len(rows)]

\* StandardScaler(): not fitted
UnfittedScaler == [fitted |-> FALSE, n |-> 0, sum |-> 0]

\* StandardScaler.fit: the feature's mean, as the sum and the count of the
\* training rows
ScalerFit(rows) == [fitted |-> TRUE, n |-> Len(rows), sum |-> SeqSum(CostsOf(rows))]

\* the scaled feature of a row: its distance from the fitted mean (times the
\* count; the division by the fitted deviation, a positive factor, is left out)
Scaled(scaler, row) == scaler.n * row.cost - scaler.sum

\* scaler.fit_transform(X): the scaler after the call and the scaled rows
StandardScaler_fit_transform(scaler, rows) ==
    LET fitted == ScalerFit(rows)
    IN  [scaler |-> fitted, X |-> [i \in DOMAIN rows |-> Scaled(fitted, rows[i])]]

\* transform refitting the scaler on the rows it is given
StandardScaler_transform_refits(scaler, rows) ==
    StandardScaler_fit_transform(scaler, rows)

\* scaler.transform(X): the scaler after the call and the scaled rows
StandardScaler_transform(scaler, rows) ==
    [scaler |-> scaler, X |-> [i \in DOMAIN rows |-> Scaled(scaler, rows[i])]]

\* IsolationForest(contamination, random_state=42, n_estimators=100): not fitted
UnfittedForest == [fitted |-> FALSE, lo |-> 0, hi |-> 0,
                   inlier_score |-> 0, outlier_score |-> 0, offset_ |-> 0]

\* What a fit leaves in the forest is the library's: here the range of the
\* scaled training rows, one score for a row inside it and one for a row outside
\* it (score_samples is negative: -2^(-depth/c)), and offset_, the score below
\* which predict answers -1.
ForestScores ==
    {[inlier_score |-> -40, outlier_score |-> -60],
     [inlier_score |-> -10, outlier_score |-> -30]}

ForestFit(X, scores) ==
    [fitted |-> TRUE,
     lo |-> SetMin({X[i] : i \in DOMAIN X}), hi |-> SetMax({X[i] : i \in DOMAIN X}),
     inlier_score |-> scores.inlier_score, outlier_score |-> scores.outlier_score,
     offset_ |-> scores.inlier_score]

\* model.score_samples(X)
score_samples(model, X) ==
    [i \in DOMAIN X |->
        IF model.lo <= X[i] /\ X[i] <= model.hi
        THEN model.inlier_score ELSE model.outlier_score]

\* model.predict(X): -1 where the score lies below offset_, else 1
ForestPredict(model, X) ==
    [i \in DOMAIN X |-> IF score_samples(model, X)[i] - model.offset_ < 0 THEN -1 ELSE 1]

\* the thresholds compared with <= instead of <
ScoreSeverityInclusive(score) ==
    IF score <= -50 THEN "high"
    ELSE IF score <= -20 THEN "medium"
    ELSE IF score <= 0 THEN "low"
    ELSE "normal"

\* the severity a score alone gives (lines 186-193)
ScoreSeverity(score) ==
    IF score < -50 THEN "high"
    ELSE IF score < -20 THEN "medium"
    ELSE IF score < 0 THEN "low"
    ELSE "normal"

\* the cost comparison taken as >=
CostExceedsOrEqual(cost, baseline_stats) == 20 * cost >= baseline_stats.p95_cost_x20 * 2

\* cost > self.baseline_stats['p95_cost'] * 2
CostExceeds(cost, baseline_stats) == 20 * cost > baseline_stats.p95_cost_x20 * 2

\* the adjustment by cost magnitude (lines 196-200)
Escalate(severity, cost, baseline_stats) ==
    IF CostExceeds(cost, baseline_stats)
    THEN IF severity = "medium" THEN "high"
         ELSE IF severity = "low" THEN "medium"
         ELSE severity
    ELSE severity

\* zip(anomaly_scores, costs)
ZipLen(a, b) == IF Len(a) < Len(b) THEN Len(a) ELSE Len(b)

\* _calculate_severity(anomaly_scores, costs): one severity per zipped pair; the
\* first pair raises KeyError when baseline_stats is still the empty dict.
_calculate_severity(anomaly_scores, costs, baseline_stats) ==
    LET n == ZipLen(anomaly_scores, costs)
    IN  IF n > 0 /\ baseline_stats = None
        THEN [status |-> "KeyError", severities |-> <<>>]
        ELSE [status |-> "ok",
              severities |->
                  [i \in 1..n |->
                      Escalate(ScoreSeverity(anomaly_scores[i]), costs[i],
                               baseline_stats[1])]]

\* the scores tried on _calculate_severity: around each of its thresholds
ScoreValues == {t + d : t \in {-50, -20, 0}, d \in (-ScoreSlack)..ScoreSlack}

\* the calls of _calculate_severity tried: no row, or one row
SeverityCalls ==
    {[anomaly_scores |-> <<>>, costs |-> <<>>]}
    \cup {[anomaly_scores |-> <<s>>, costs |-> <<c>>] : s \in ScoreValues, c \in CostValues}

InitAD ==
    /\ ad_model = UnfittedForest
    /\ ad_scaler = UnfittedScaler
    /\ ad_is_trained = FALSE
    /\ ad_feature_names = <<>>
    /\ ad_baseline_stats = None
    /\ ad_call = NoCall
    /\ ad_ret = None
    /\ ad_completed = FALSE

\* train, prepare_features raises: nothing is assigned yet
TrainMissingColumn(F) ==
    \E cost_data \in F :
        /\ prepare_features(cost_data).status # "ok"
        /\ ad_call' = [op |-> "train", cost_data |-> cost_data]
        /\ ad_ret' = Some([status |-> prepare_features(cost_data).status])
        /\ UNCHANGED <<ad_model, ad_scaler, ad_is_trained, ad_feature_names,
                       ad_baseline_stats, ad_completed>>
        /\ UNCHANGED <<eoVars, cpVars, roVars, ccVars>>

\* train on no rows: feature_names is assigned, then scaler.fit_transform raises
\* (StandardScaler.fit resets the scaler before it validates its input)
TrainScalingFails(F) ==
    \E cost_data \in F :
        /\ prepare_features(cost_data).status = "ok"
        /\ prepare_features(cost_data).rows = <<>>
        /\ ad_call' = [op |-> "train", cost_data |-> cost_data]
        /\ ad_feature_names' = AvailableFeatures(prepare_features(cost_data).columns)
        /\ ad_scaler' = UnfittedScaler
        /\ ad_ret' = Some([status |-> "ValueError"])
        /\ UNCHANGED <<ad_model, ad_is_trained, ad_baseline_stats, ad_completed>>
        /\ UNCHANGED <<eoVars, cpVars, roVars, ccVars>>

\* train to its end
TrainSucceeds(F) ==
    \E cost_data \in F, scores \in ForestScores :
        LET df_features == prepare_features(cost_data)
            t == StandardScaler_fit_transform(ad_scaler, df_features.rows)
        IN  /\ df_features.status = "ok"
            /\ df_features.rows # <<>>
            /\ ad_call' = [op |-> "train", cost_data |-> cost_data]
            /\ ad_feature_names' = AvailableFeatures(df_features.columns)
            /\ ad_scaler' = t.scaler
            /\ ad_model' = ForestFit(t.X, scores)
            /\ ad_baseline_stats' = Some(BaselineStats(df_features.rows))
            /\ ad_is_trained' = TRUE
            /\ ad_ret' = Some([status |-> "ok"])
            /\ ad_completed' = TRUE
            /\ UNCHANGED <<eoVars, cpVars, roVars, ccVars>>

\* whether detect_anomalies goes past its first check
DetectAllowed == ad_is_trained

\* why detect_anomalies raises past its first check, "ok" if it does not:
\* prepare_features raises; a trained feature is no column of this table; the
\* scaler is not fitted or has no row to transform
DetectFailure(cost_data) ==
    LET df_features == prepare_features(cost_data)
    IN  IF df_features.status # "ok" THEN df_features.status
        ELSE IF \E i \in DOMAIN ad_feature_names :
                    ad_feature_names[i] \notin df_features.columns THEN "KeyError"
        ELSE IF ~ad_scaler.fitted THEN "NotFittedError"
        ELSE IF df_features.rows = <<>> THEN "ValueError"
        ELSE IF ~ad_model.fitted THEN "NotFittedError"
        ELSE "ok"

\* _generate_anomaly_reasons for one row, lines 210-239: the parts of the reason,
\* which "; ".join makes one text of.  Of the parts an anomalous row can have the
\* model keeps the one its cost gives; the time of day, the weekend, the
\* provider and the z-score give the others.
AnomalyReason(is_anomaly, cost, baseline_stats) ==
    IF ~is_anomaly THEN <<"Normal spending pattern">>
    ELSE LET reason_parts ==
                 IF baseline_stats # None /\ 20 * cost > baseline_stats[1].p95_cost_x20
                 THEN <<"Cost exceeds 95th percentile">> ELSE <<>>
         IN  IF reason_parts = <<>>
             THEN <<"Multiple factors indicate anomalous pattern">>
             ELSE reason_parts

\* the rows detect_anomalies returns, from the scaled rows, the model that
\* labels and scores them and the baseline_stats the severity reads
DetectRowsOf(model, baseline_stats, df_features, X) ==
    LET anomaly_labels == ForestPredict(model, X)
        anomaly_scores == score_samples(model, X)
        severity == _calculate_severity(anomaly_scores, CostsOf(df_features.rows),
                                        baseline_stats).severities
    IN  [i \in DOMAIN df_features.rows |->
            [timestamp |-> df_features.rows[i].timestamp,
             cost |-> df_features.rows[i].cost,
             anomaly_score |-> anomaly_scores[i],
             is_anomaly |-> (anomaly_labels[i] = -1),
             anomaly_severity |-> severity[i],
             anomaly_reason |-> AnomalyReason(anomaly_labels[i] = -1,
                                              df_features.rows[i].cost,
                                              baseline_stats)]]

\* the rows of a call that runs alone
DetectRows(df_features, X) == DetectRowsOf(ad_model, ad_baseline_stats, df_features, X)

\* detect_anomalies on an untrained instance
DetectNotTrained(F) ==
    \E cost_data \in F :
        /\ ~DetectAllowed
        /\ ad_call' = [op |-> "detect_anomalies", cost_data |-> cost_data]
        /\ ad_ret' = Some([status |-> "ValueError",
                           message |-> "Model must be trained before detecting anomalies"])
        /\ UNCHANGED <<ad_model, ad_scaler, ad_is_trained, ad_feature_names,
                       ad_baseline_stats, ad_completed>>
        /\ UNCHANGED <<eoVars, cpVars, roVars, ccVars>>

\* detect_anomalies raising past its first check
DetectRaises(F) ==
    \E cost_data \in F :
        /\ DetectAllowed
        /\ DetectFailure(cost_data) # "ok"
        /\ ad_call' = [op |-> "detect_anomalies", cost_data |-> cost_data]
        /\ ad_ret' = Some([status |-> DetectFailure(cost_data), message |-> ""])
        /\ UNCHANGED <<ad_model, ad_scaler, ad_is_trained, ad_feature_names,
                       ad_baseline_stats, ad_completed>>
        /\ UNCHANGED <<eoVars, cpVars, roVars, ccVars>>

\* detect_anomalies returning its results
DetectReturns(F) ==
    \E cost_data \in F :
        LET df_features == prepare_features(cost_data)
            t == StandardScaler_transform(ad_scaler, df_features.rows)
        IN  /\ DetectAllowed
            /\ DetectFailure(cost_data) = "ok"
            /\ ad_call' = [op |-> "detect_anomalies", cost_data |-> cost_data]
            /\ ad_scaler' = t.scaler
            /\ ad_ret' = Some([status |-> "ok", rows |-> DetectRows(df_features, t.X)])
            /\ UNCHANGED <<ad_model, ad_is_trained, ad_feature_names,
                           ad_baseline_stats, ad_completed>>
            /\ UNCHANGED <<eoVars, cpVars, roVars, ccVars>>

\* _calculate_severity called on its own
CalculateSeverity ==
    \E c \in SeverityCalls :
        /\ ad_call' = [op |-> "_calculate_severity",
                       anomaly_scores |-> c.anomaly_scores, costs |-> c.costs]
        /\ ad_ret' = Some(_calculate_severity(c.anomaly_scores, c.costs,
                                              ad_baseline_stats))
        /\ UNCHANGED <<ad_model, ad_scaler, ad_is_trained, ad_feature_names,
                       ad_baseline_stats, ad_completed>>
        /\ UNCHANGED <<eoVars, cpVars, roVars, ccVars>>

NextAD(F) ==
    \/ TrainMissingColumn(F)
    \/ TrainScalingFails(F)
    \/ TrainSucceeds(F)
    \/ DetectNotTrained(F)
    \/ DetectRaises(F)
    \/ DetectReturns(F)

NextDetect == NextAD(CostTables) \/ CalculateSeverity

\* Both classes with their inputs cut down to what reaches every outcome of
\* train_model, predict, save_model, load_model, train and detect_anomalies.
InferenceHistories ==
    {History(MinTrainingDays - 1, MaxDup, 0, FALSE), History(MinTrainingDays, 0, 0, FALSE)}
InferenceTables ==
    {t \in CostTables : ~t.usage_hours /\ \A i \in DOMAIN t.rows : t.rows[i].cost = 1 /\ i = 1}

NextInference ==
    \/ NextCP(InferenceHistories, {[raised |-> TRUE, value |-> 0]}, {0, 1},
              {[level |-> 1, below |-> 1, above |-> 1]})
    \/ NextCPFile
    \/ NextAD(InferenceTables)

(***************************************************************************)
(* ResourceOptimizer                                                       *)
(*                                                                         *)
(* Money is an integer count of a fraction of a cent: tenths of a cent for *)
(* instances (3.50 is 3500), thousandths of a cent for storage (the price  *)
(* 0.00099 per GB is 99).  Memory is in half GB (0.5 is 1); utilization is *)
(* a whole percentage; a confidence is in hundredths.                      *)
(***************************************************************************)
\* the savings thresholds are approached this many cents from both sides
SavingsSlack == 1
\* the utilization thresholds of the confidence are approached this many points
UtilSlack == 1

\* round(x, 2) of a money amount kept in 1/per_cent of a cent: to whole cents,
\* a tie to the even cent
Round2(x, per_cent) ==
    LET q == x \div per_cent
        r == x % per_cent
    IN  IF 2 * r < per_cent THEN q * per_cent
        ELSE IF 2 * r > per_cent THEN (q + 1) * per_cent
        ELSE IF q % 2 = 0 THEN q * per_cent ELSE (q + 1) * per_cent

\* round(n / d * 100, 1) for d > 0, in tenths of a percent, a tie to even
RoundPercent1(n, d) ==
    LET q == (n * 1000) \div d
        r == (n * 1000) % d
    IN  IF 2 * r < d THEN q
        ELSE IF 2 * r > d THEN q + 1
        ELSE IF q % 2 = 0 THEN q ELSE q + 1

\* instance_hierarchy of generate_rightsizing_recommendations, each provider's
\* entries in dict order
instance_hierarchy ==
    [aws |-> << [type |-> "t3.nano",    cpu |-> 2,  memory |-> 1,   cost |-> 3500],
                [type |-> "t3.micro",   cpu |-> 2,  memory |-> 2,   cost |-> 7000],
                [type |-> "t3.small",   cpu |-> 2,  memory |-> 4,   cost |-> 14000],
                [type |-> "t3.medium",  cpu |-> 2,  memory |-> 8,   cost |-> 28000],
                [type |-> "t3.large",   cpu |-> 2,  memory |-> 16,  cost |-> 56000],
                [type |-> "m5.large",   cpu |-> 2,  memory |-> 16,  cost |-> 70020],
                [type |-> "m5.xlarge",  cpu |-> 4,  memory |-> 32,  cost |-> 140160],
                [type |-> "m5.2xlarge", cpu |-> 8,  memory |-> 64,  cost |-> 280320],
                [type |-> "m5.4xlarge", cpu |-> 16, memory |-> 128, cost |-> 560160] >>,
     azure |-> << [type |-> "Standard_B1s",    cpu |-> 1, memory |-> 2,  cost |-> 7520],
                  [type |-> "Standard_B2s",    cpu |-> 2, memory |-> 8,  cost |-> 30080],
                  [type |-> "Standard_D2s_v4", cpu |-> 2, memory |-> 16, cost |-> 70080],
                  [type |-> "Standard_D4s_v4", cpu |-> 4, memory |-> 32, cost |-> 140160],
                  [type |-> "Standard_D8s_v4", cpu |-> 8, memory |-> 64, cost |-> 280320] >>]

\* hierarchy.get(provider, {})
AvailableTypes(hierarchy, provider) ==
    IF provider \in DOMAIN hierarchy THEN hierarchy[provider] ELSE <<>>

\* available_types[instance_type], None when it is no key
TypeSpec(available_types, instance_type) ==
    LET hits == {i \in DOMAIN available_types : available_types[i].type = instance_type}
    IN  IF hits = {} THEN None ELSE Some(available_types[SetMin(hits)])

\* required_cpu = max(1, int(current_spec['cpu'] * cpu_util / 100 * 1.2)): the
\* product truncated to a whole number of cpus
RequiredCpu(current_spec, cpu_util) ==
    LET truncated == (current_spec.cpu * cpu_util * 12) \div 1000
    IN  IF truncated < 1 THEN 1 ELSE truncated

\* required_memory = max(0.5, current_spec['memory'] * memory_util / 100 * 1.2),
\* in thousandths of half a GB
RequiredMemory1000(current_spec, memory_util) ==
    LET exact1000 == current_spec.memory * memory_util * 12
    IN  IF exact1000 < 1000 THEN 1000 ELSE exact1000

\* the loop of _find_optimal_instance_type over the entries from position i on,
\* with the best type and cost found so far
RECURSIVE BestFrom(_, _, _, _, _, _)
BestFrom(available_types, i, required_cpu, required_memory1000, best_type, best_cost) ==
    IF i > Len(available_types) THEN best_type
    ELSE LET spec == available_types[i]
         IN  IF /\ spec.cpu >= required_cpu
                /\ spec.memory * 1000 >= required_memory1000
                /\ spec.cost < best_cost
             THEN BestFrom(available_types, i + 1, required_cpu, required_memory1000,
                           spec.type, spec.cost)
             ELSE BestFrom(available_types, i + 1, required_cpu, required_memory1000,
                           best_type, best_cost)

_find_optimal_instance_type(provider, current_type, cpu_util, memory_util, hierarchy) ==
    LET available_types == AvailableTypes(hierarchy, provider)
        current == TypeSpec(available_types, current_type)
    IN  IF current = None THEN current_type
        ELSE BestFrom(available_types, 1,
                      RequiredCpu(current[1], cpu_util),
                      RequiredMemory1000(current[1], memory_util),
                      current_type, current[1].cost)

\* the threshold test taken as >=
SavingsExceedOrEqual(savings, threshold) == savings >= threshold

\* if savings > 10 (rightsizing), if savings > 5 (storage)
SavingsExceed(savings, threshold) == savings > threshold

\* a ratio savings / current_cost, kept as its two terms
Ratio(n, d) == [num |-> n, den |-> d]
\* savings_ratio > percent / 100 (den > 0)
RatioAbove(savings_ratio, percent) ==
    savings_ratio.num * 100 > percent * savings_ratio.den

\* the two cpu bonuses exchanged
CpuBonusExchanged(cpu_util) ==
    IF cpu_util < 20 THEN 20 ELSE IF cpu_util < 40 THEN 30 ELSE 0

\* the cpu bonus of the confidence
CpuBonus(cpu_util) == IF cpu_util < 20 THEN 30 ELSE IF cpu_util < 40 THEN 20 ELSE 0
\* the memory bonus
MemoryBonus(memory_util) ==
    IF memory_util < 30 THEN 20 ELSE IF memory_util < 50 THEN 10 ELSE 0
\* the savings bonus
SavingsBonus(savings_ratio) ==
    IF RatioAbove(savings_ratio, 50) THEN 20
    ELSE IF RatioAbove(savings_ratio, 30) THEN 10 ELSE 0

_calculate_recommendation_confidence(cpu_util, memory_util, savings_ratio) ==
    LET confidence == 50 + CpuBonus(cpu_util) + MemoryBonus(memory_util)
                         + SavingsBonus(savings_ratio)
    IN  IF confidence > 95 THEN 95 ELSE confidence

\* _generate_reasoning: which of its three sentences the text holds
_generate_reasoning(cpu_util, memory_util, savings_ratio) ==
    (IF cpu_util < 25 THEN <<"cpu_low">> ELSE <<>>)
    \o (IF memory_util < 40 THEN <<"memory_low">> ELSE <<>>)
    \o (IF RatioAbove(savings_ratio, 40) THEN <<"savings">> ELSE <<>>)

\* the savings a rightsizing recommendation needs to exceed (10 a month)
RightsizingThreshold == 10000

\* the recommendation of one instance, as a sequence of zero or one record
RightsizingOf(instance) ==
    LET provider == instance.provider
        current_type == instance.instance_type
        cpu_util == instance.cpu_utilization
        memory_util == instance.memory_utilization
        current_cost == instance.monthly_cost
        optimal_type == _find_optimal_instance_type(provider, current_type, cpu_util,
                                                    memory_util, instance_hierarchy)
        optimal_cost == TypeSpec(instance_hierarchy[provider], optimal_type)[1].cost
        savings == current_cost - optimal_cost
        ratio == Ratio(savings, current_cost)
    IN  IF provider \notin DOMAIN instance_hierarchy THEN <<>>
        ELSE IF optimal_type = current_type THEN <<>>
        ELSE IF ~SavingsExceed(savings, RightsizingThreshold) THEN <<>>
        ELSE << [resource_id |-> instance.resource_id,
                 provider |-> provider,
                 current_instance |-> current_type,
                 recommended_instance |-> optimal_type,
                 current_cost |-> Round2(current_cost, 10),
                 projected_cost |-> Round2(optimal_cost, 10),
                 monthly_savings |-> Round2(savings, 10),
                 savings_percentage |-> RoundPercent1(savings, current_cost),
                 cpu_utilization |-> cpu_util,
                 memory_utilization |-> memory_util,
                 confidence |-> _calculate_recommendation_confidence(cpu_util,
                                                                     memory_util, ratio),
                 reasoning |-> _generate_reasoning(cpu_util, memory_util, ratio)] >>

\* r inserted before the recommendations that save as much as it does
RECURSIVE InsertDescendingBeforeTies(_, _)
InsertDescendingBeforeTies(r, sorted) ==
    IF sorted = <<>> THEN <<r>>
    ELSE IF Head(sorted).monthly_savings > r.monthly_savings
         THEN <<Head(sorted)>> \o InsertDescendingBeforeTies(r, Tail(sorted))
         ELSE <<r>> \o sorted

\* recommendations.sort(key=monthly_savings, reverse=True): a stable insertion
\* of r into a sequence already in descending order
RECURSIVE InsertDescending(_, _)
InsertDescending(r, sorted) ==
    IF sorted = <<>> THEN <<r>>
    ELSE IF Head(sorted).monthly_savings >= r.monthly_savings
         THEN <<Head(sorted)>> \o InsertDescending(r, Tail(sorted))
         ELSE <<r>> \o sorted

RECURSIVE SortBySavings(_)
SortBySavings(recs) ==
    IF recs = <<>> THEN <<>>
    ELSE InsertDescending(recs[Len(recs)], SortBySavings(SubSeq(recs, 1, Len(recs) - 1)))

RECURSIVE RightsizingAll(_)
RightsizingAll(instances) ==
    IF instances = <<>> THEN <<>>
    ELSE RightsizingOf(Head(instances)) \o RightsizingAll(Tail(instances))

generate_rightsizing_recommendations(instances) ==
    SortBySavings(RightsizingAll(instances))

\* pricing of _get_optimal_storage_class, per GB and month
pricing ==
    [aws |-> [standard |-> 2300, standard_ia |-> 1250, glacier |-> 400,
              glacier_deep |-> 99],
     azure |-> [hot |-> 1840, cool |-> 1000, archive |-> 99]]

\* the tier bounds compared with < instead of <=
OptimalClassExclusive(provider, last_accessed_days) ==
    IF provider = "aws" THEN
        IF last_accessed_days < 30 THEN "standard"
        ELSE IF last_accessed_days < 90 THEN "standard_ia"
        ELSE IF last_accessed_days < 365 THEN "glacier"
        ELSE "glacier_deep"
    ELSE IF provider = "azure" THEN
        IF last_accessed_days < 30 THEN "hot"
        ELSE IF last_accessed_days < 90 THEN "cool"
        ELSE "archive"
    ELSE "standard"

\* the tier of a provider for the days since the last access
OptimalClass(provider, last_accessed_days) ==
    IF provider = "aws" THEN
        IF last_accessed_days <= 30 THEN "standard"
        ELSE IF last_accessed_days <= 90 THEN "standard_ia"
        ELSE IF last_accessed_days <= 365 THEN "glacier"
        ELSE "glacier_deep"
    ELSE IF provider = "azure" THEN
        IF last_accessed_days <= 30 THEN "hot"
        ELSE IF last_accessed_days <= 90 THEN "cool"
        ELSE "archive"
    ELSE "standard"

_get_optimal_storage_class(provider, last_accessed_days, current_cost, size_gb) ==
    LET optimal_class == OptimalClass(provider, last_accessed_days)
    IN  [optimal_class |-> optimal_class,
         projected_cost |-> IF provider \in {"aws", "azure"}
                            THEN size_gb * pricing[provider][optimal_class]
                            ELSE current_cost]

\* _generate_storage_reasoning: which of its sentences
_generate_storage_reasoning(last_accessed_days, optimal_class) ==
    IF last_accessed_days > 365 THEN "archive"
    ELSE IF last_accessed_days > 90 THEN "cold"
    ELSE IF last_accessed_days > 30 THEN "infrequent"
    ELSE "frequent"

\* the savings a storage recommendation needs to exceed (5 a month)
StorageThreshold == 500000

\* the recommendation of one storage row, as a sequence of zero or one record
StorageOf(storage) ==
    LET optimal == _get_optimal_storage_class(storage.provider,
                       storage.last_accessed_days, storage.monthly_cost, storage.size_gb)
        savings == storage.monthly_cost - optimal.projected_cost
    IN  IF optimal.optimal_class = storage.storage_class THEN <<>>
        ELSE IF ~SavingsExceed(savings, StorageThreshold) THEN <<>>
        ELSE << [resource_id |-> storage.resource_id,
                 provider |-> storage.provider,
                 current_storage_class |-> storage.storage_class,
                 recommended_storage_class |-> optimal.optimal_class,
                 current_cost |-> Round2(storage.monthly_cost, 1000),
                 projected_cost |-> Round2(optimal.projected_cost, 1000),
                 monthly_savings |-> Round2(savings, 1000),
                 last_accessed_days |-> storage.last_accessed_days,
                 size_gb |-> storage.size_gb,
                 confidence |-> 85,
                 reasoning |-> _generate_storage_reasoning(storage.last_accessed_days,
                                                           optimal.optimal_class)] >>

RECURSIVE analyze_storage_optimization(_)
analyze_storage_optimization(storage_data) ==
    IF storage_data = <<>> THEN <<>>
    ELSE StorageOf(Head(storage_data)) \o analyze_storage_optimization(Tail(storage_data))

\* days since the last access are taken this far on both sides of a tier bound
DaySlack == 1

\* the providers tried: the two of the catalog and one that is not in it
Providers == {"aws", "azure", "gcp"}

\* the instance types tried for a provider: its catalog and one unknown type
TypesOf(provider) ==
    {AvailableTypes(instance_hierarchy, provider)[i].type :
        i \in DOMAIN AvailableTypes(instance_hierarchy, provider)} \cup {"unknown"}
ProviderTypes == {<<pr, t>> : pr \in Providers, t \in UNION {TypesOf(q) : q \in Providers}}
                 \cap UNION {{<<pr, t>> : t \in TypesOf(pr)} : pr \in Providers}

\* the utilizations tried on the catalog search
CpuUtils == {0, 25, 60, 75}
MemoryUtils == {30, 80}

\* the monthly costs tried for an instance: the catalog cost of its type, the
\* costs around the one that saves exactly the threshold, and one that saves
\* 0.004 more than the threshold
InstanceCosts(provider, current_type, cpu_util, memory_util) ==
    LET available_types == AvailableTypes(instance_hierarchy, provider)
        current == TypeSpec(available_types, current_type)
        optimal_type == _find_optimal_instance_type(provider, current_type, cpu_util,
                                                    memory_util, instance_hierarchy)
        optimal == TypeSpec(available_types, optimal_type)
    IN  IF current = None THEN {0, 100000}
        ELSE {current[1].cost, optimal[1].cost + RightsizingThreshold + 4}
             \cup {optimal[1].cost + RightsizingThreshold + d * 10 :
                      d \in (-SavingsSlack)..SavingsSlack}

\* the two instances of the repository's test
sample_instances ==
    << [resource_id |-> "i-001", provider |-> "aws", instance_type |-> "m5.4xlarge",
        cpu_utilization |-> 25, memory_utilization |-> 30, monthly_cost |-> 560160],
       [resource_id |-> "vm-002", provider |-> "azure",
        instance_type |-> "Standard_D4s_v4",
        cpu_utilization |-> 75, memory_utilization |-> 80, monthly_cost |-> 175200] >>

\* the instances tried
Instances ==
    UNION {
        {[resource_id |-> "i-001", provider |-> pt[1], instance_type |-> pt[2],
          cpu_utilization |-> c, memory_utilization |-> m, monthly_cost |-> k] :
            k \in InstanceCosts(pt[1], pt[2], c, m)} :
        pt \in ProviderTypes, c \in CpuUtils, m \in MemoryUtils}

\* the first instance of the test under another id, and the second one idle
sample_instance_twin == [sample_instances[1] EXCEPT !.resource_id = "i-003"]
sample_instance_idle ==
    [sample_instances[2] EXCEPT !.cpu_utilization = 25, !.memory_utilization = 30]

\* the instance lists tried: none, one instance, the test's two and two
\* underutilized ones in both orders, and lists with two instances that save
\* the same
InstanceLists ==
    {<<>>, sample_instances, <<sample_instances[2], sample_instances[1]>>,
     <<sample_instances[1], sample_instance_idle>>,
     <<sample_instance_idle, sample_instances[1]>>,
     <<sample_instances[1], sample_instance_twin>>,
     <<sample_instance_twin, sample_instances[1]>>,
     <<sample_instance_idle, sample_instances[1], sample_instance_twin>>,
     <<sample_instance_twin, sample_instance_idle, sample_instances[1]>>}
    \cup {<<i>> : i \in Instances}

\* the arguments tried on the confidence: around each of its thresholds
ConfidenceCpu == {t + d : t \in {20, 40}, d \in (-UtilSlack)..UtilSlack} \cup {25, 75}
ConfidenceMemory == {t + d : t \in {30, 50}, d \in (-UtilSlack)..UtilSlack} \cup {80}
ConfidenceRatios == {Ratio(n, 100) : n \in {10, 30, 31, 50, 51}}

\* the days since the last access tried: inside each tier and around each bound
AccessDays == {15, 45} \cup {b + d : b \in {30, 90, 365}, d \in (-DaySlack)..DaySlack}
TierDays == {15, 45, 200, 400}
SizesGb == {0, 5, 1000}

\* the storage classes a row may be in
ClassesOf(provider) ==
    IF provider \in DOMAIN pricing THEN DOMAIN pricing[provider] ELSE {"standard"}

\* the monthly costs tried for a storage row: around the one that saves exactly
\* the threshold
StorageCosts(provider, last_accessed_days, size_gb) ==
    LET projected == _get_optimal_storage_class(provider, last_accessed_days, 0,
                                                size_gb).projected_cost
        cents == ((projected + 999) \div 1000) * 1000
    IN  {cents + StorageThreshold + d * 1000 : d \in (-SavingsSlack)..SavingsSlack}

\* the storage row of the repository's test
sample_storage ==
    [resource_id |-> "bucket-001", provider |-> "aws", storage_class |-> "standard",
     last_accessed_days |-> 45, monthly_cost |-> 24580000, size_gb |-> 10691]

StorageRows ==
    {sample_storage}
    \cup UNION {
        {[resource_id |-> "bucket-001", provider |-> pr, storage_class |-> cl,
          last_accessed_days |-> days, monthly_cost |-> k, size_gb |-> size] :
            cl \in ClassesOf(pr), k \in StorageCosts(pr, days, size)} :
        pr \in Providers, days \in TierDays, size \in SizesGb}

\* the bucket of the test under another id, and one not read for over a year
sample_storage_twin == [sample_storage EXCEPT !.resource_id = "bucket-003"]
sample_storage_cold ==
    [sample_storage EXCEPT !.resource_id = "bucket-002", !.last_accessed_days = 400]

\* the storage tables tried: no row, one row, and two or three rows of the
\* test's bucket, its twin and the cold one
StorageTables ==
    {<<>>} \cup {<<r>> : r \in StorageRows}
    \cup {<<sample_storage, sample_storage_cold>>,
          <<sample_storage_cold, sample_storage>>,
          <<sample_storage, sample_storage_twin>>,
          <<sample_storage_twin, sample_storage>>,
          <<sample_storage_twin, sample_storage_cold, sample_storage>>}

(***************************************************************************)
(* The two recommendation loops on batches with resources that cannot be   *)
(* processed.  An element of a batch is a Python value: a mapping with the *)
(* resource's keys, some of them holding no number, or None.               *)
(***************************************************************************)
\* the longest batch tried
MaxBatch == 3

\* a dict (or a row of the DataFrame) item, the keys bad_keys of which hold
\* None (or text) in place of their number
PyMapping(item, bad_keys) == [py |-> "mapping", item |-> item, bad_keys |-> bad_keys]
\* None as an element of the list
PyNone == [py |-> "NoneType", item |-> <<>>, bad_keys |-> {}]

\* the body of the loop of generate_rightsizing_recommendations for one
\* element, lines 182-224.  instance.get raises AttributeError on an element
\* that is no mapping, and so does the handler's own instance.get (line 223):
\* that one leaves the call.  On a mapping the catalog arithmetic (lines
\* 241-242) raises TypeError on a utilization that is no number, which the
\* handler catches: the element adds nothing.
RightsizingTry(element) ==
    IF element.py # "mapping"
    THEN [status |-> "AttributeError", recommendations |-> <<>>]
    ELSE LET instance == element.item
             available_types == AvailableTypes(instance_hierarchy, instance.provider)
         IN  IF instance.provider \notin DOMAIN instance_hierarchy
             THEN [status |-> "ok", recommendations |-> <<>>]
             ELSE IF TypeSpec(available_types, instance.instance_type) = None
             THEN [status |-> "ok", recommendations |-> <<>>]
             ELSE IF element.bad_keys \cap {"cpu_utilization", "memory_utilization"} # {}
             THEN [status |-> "ok", recommendations |-> <<>>]
             ELSE [status |-> "ok", recommendations |-> RightsizingOf(instance)]

RECURSIVE RightsizingTryAll(_)
RightsizingTryAll(instances) ==
    IF instances = <<>> THEN <<>>
    ELSE RightsizingTry(Head(instances)).recommendations
            \o RightsizingTryAll(Tail(instances))

\* generate_rightsizing_recommendations on such a batch: the first exception
\* that leaves the loop leaves the call
rightsizing_batch(instances) ==
    IF \E i \in DOMAIN instances : RightsizingTry(instances[i]).status # "ok"
    THEN [status |-> RightsizingTry(instances[
                        SetMin({i \in DOMAIN instances :
                                   RightsizingTry(instances[i]).status # "ok"})]).status]
    ELSE [status |-> "ok", recommendations |-> SortBySavings(RightsizingTryAll(instances))]

\* the body of the loop of analyze_storage_optimization for one row, lines
\* 308-342.  iterrows gives a Series for every row, so storage.get never
\* raises; size_gb * price (lines 374, 384) raises TypeError on a size that
\* is text, which the handler catches.
StorageTry(element) ==
    IF element.item.provider \in DOMAIN pricing /\ "size_gb" \in element.bad_keys
    THEN [status |-> "ok", recommendations |-> <<>>]
    ELSE [status |-> "ok", recommendations |-> StorageOf(element.item)]

RECURSIVE StorageTryAll(_)
StorageTryAll(storage_data) ==
    IF storage_data = <<>> THEN <<>>
    ELSE StorageTry(Head(storage_data)).recommendations
            \o StorageTryAll(Tail(storage_data))

storage_batch(storage_data) ==
    [status |-> "ok", recommendations |-> StorageTryAll(storage_data)]

\* sequences of up to n elements of S
RECURSIVE BatchesOf(_, _)
BatchesOf(S, n) ==
    IF n = 0 THEN {<<>>}
    ELSE BatchesOf(S, n - 1) \cup {Append(b, e) : b \in BatchesOf(S, n - 1), e \in S}

\* the elements tried: two instances that get a recommendation, one whose
\* cpu_utilization is None, one of a provider without catalog whose
\* cpu_utilization is None, and None
InstanceElements ==
    {PyMapping(sample_instances[1], {}),
     PyMapping(sample_instance_idle, {}),
     PyMapping([sample_instances[1] EXCEPT !.resource_id = "i-004"], {"cpu_utilization"}),
     PyMapping([sample_instances[1] EXCEPT !.resource_id = "i-005", !.provider = "gcp"],
               {"cpu_utilization"}),
     PyNone}
\* the rows tried: two that get a recommendation and two whose size_gb is text,
\* one of them of a provider without prices
StorageElements ==
    {PyMapping(sample_storage, {}),
     PyMapping(sample_storage_cold, {}),
     PyMapping([sample_storage EXCEPT !.resource_id = "bucket-004"], {"size_gb"}),
     PyMapping([sample_storage EXCEPT !.resource_id = "bucket-005", !.provider = "gcp"],
               {"size_gb"})}

RightsizingBatch ==
    \E instances \in BatchesOf(InstanceElements, MaxBatch) :
        /\ ro_call' = [op |-> "rightsizing_batch", batch |-> instances]
        /\ ro_ret' = Some(rightsizing_batch(instances))
        /\ UNCHANGED <<ro_fields, eoVars, cpVars, adVars, ccVars>>

StorageBatch ==
    \E storage_data \in BatchesOf(StorageElements, MaxBatch) :
        /\ ro_call' = [op |-> "storage_batch", batch |-> storage_data]
        /\ ro_ret' = Some(storage_batch(storage_data))
        /\ UNCHANGED <<ro_fields, eoVars, cpVars, adVars, ccVars>>

NextBatch == RightsizingBatch \/ StorageBatch

InitRO ==
    /\ ro_call = NoCall
    /\ ro_ret = None
    /\ ro_fields = ResourceOptimizer_init

FindOptimalInstanceType ==
    \E pt \in ProviderTypes, cpu_util \in CpuUtils, memory_util \in MemoryUtils :
        /\ ro_call' = [op |-> "_find_optimal_instance_type", provider |-> pt[1],
                       current_type |-> pt[2], cpu_util |-> cpu_util,
                       memory_util |-> memory_util]
        /\ ro_ret' = Some(_find_optimal_instance_type(pt[1], pt[2], cpu_util,
                                                      memory_util, instance_hierarchy))
        /\ UNCHANGED <<ro_fields, eoVars, cpVars, adVars, ccVars>>

GenerateRightsizingRecommendations(lists) ==
    \E instances \in lists :
        /\ ro_call' = [op |-> "generate_rightsizing_recommendations",
                       instances |-> instances]
        /\ ro_ret' = Some(generate_rightsizing_recommendations(instances))
        /\ UNCHANGED <<ro_fields, eoVars, cpVars, adVars, ccVars>>

CalculateRecommendationConfidence ==
    \E cpu_util \in ConfidenceCpu, memory_util \in ConfidenceMemory,
       savings_ratio \in ConfidenceRatios :
        /\ ro_call' = [op |-> "_calculate_recommendation_confidence",
                       cpu_util |-> cpu_util, memory_util |-> memory_util,
                       savings_ratio |-> savings_ratio]
        /\ ro_ret' = Some(_calculate_recommendation_confidence(cpu_util, memory_util,
                                                               savings_ratio))
        /\ UNCHANGED <<ro_fields, eoVars, cpVars, adVars, ccVars>>

GetOptimalStorageClass ==
    \E provider \in Providers, last_accessed_days \in AccessDays, size_gb \in SizesGb :
        /\ ro_call' = [op |-> "_get_optimal_storage_class", provider |-> provider,
                       last_accessed_days |-> last_accessed_days,
                       current_cost |-> 10000000, size_gb |-> size_gb]
        /\ ro_ret' = Some(_get_optimal_storage_class(provider, last_accessed_days,
                                                     10000000, size_gb))
        /\ UNCHANGED <<ro_fields, eoVars, cpVars, adVars, ccVars>>

AnalyzeStorageOptimization(tables) ==
    \E storage_data \in tables :
        /\ ro_call' = [op |-> "analyze_storage_optimization",
                       storage_data |-> storage_data]
        /\ ro_ret' = Some(analyze_storage_optimization(storage_data))
        /\ UNCHANGED <<ro_fields, eoVars, cpVars, adVars, ccVars>>

\* the catalog search and the confidence, called on their own
NextRightsizing == FindOptimalInstanceType \/ CalculateRecommendationConfidence

\* the two recommendation generators and the storage tier rule
NextRecommend ==
    \/ GenerateRightsizingRecommendations(InstanceLists)
    \/ GetOptimalStorageClass
    \/ AnalyzeStorageOptimization(StorageTables)


(***************************************************************************)
(* train and detect_anomalies as they run when several requests share one  *)
(* detector: nothing in the two methods takes a lock, so the statements of *)
(* one call interleave with those of another.  A step is one statement     *)
(* that reads or writes a field of the detector.                           *)
(***************************************************************************)
\* the requests that call detect_anomalies at the same time
DetectThreads == {1, 2}

\* the tables trained on and detected on while calls overlap
ConcurrentTrainTables ==
    {t \in CostTables :
        /\ t.has_columns
        /\ \/ t.rows = TableRows(<<1>>) /\ ~t.usage_hours
           \/ t.rows = TableRows(<<2>>) /\ t.usage_hours}
ConcurrentDetectTables ==
    {t \in CostTables : t.has_columns /\ t.rows = TableRows(<<2>>)}
\* the scores the forest fitted while calls overlap gives
ConcurrentScores == {[inlier_score |-> -10, outlier_score |-> -30]}

\* no call in progress
Idle == [pc |-> "idle"]
InitCC ==
    /\ ad_train = Idle
    /\ ad_detect = [t \in DetectThreads |-> Idle]

\* a step of train is seen by every detect_anomalies call then in progress
Overlapped ==
    [t \in DetectThreads |->
        IF ad_detect[t].pc \in {"checked", "selected", "scaled", "scored"}
        THEN [ad_detect[t] EXCEPT !.overlap = TRUE] ELSE ad_detect[t]]

\* train, lines 99-111: the features are prepared and selected
TrainBegin(F) ==
    \E cost_data \in F, scores \in ConcurrentScores :
        /\ ad_train.pc = "idle"
        /\ prepare_features(cost_data).status = "ok"
        /\ prepare_features(cost_data).rows # <<>>
        /\ ad_train' = [pc |-> "prepared", cost_data |-> cost_data, scores |-> scores]
        /\ ad_detect' = Overlapped
        /\ UNCHANGED <<adVars, eoVars, cpVars, roVars>>

\* line 113: self.feature_names = available_features
TrainSetFeatureNames ==
    /\ ad_train.pc = "prepared"
    /\ ad_feature_names' = AvailableFeatures(prepare_features(ad_train.cost_data).columns)
    /\ ad_train' = [ad_train EXCEPT !.pc = "named"]
    /\ ad_detect' = Overlapped
    /\ UNCHANGED <<ad_model, ad_scaler, ad_is_trained, ad_baseline_stats, ad_call,
                   ad_ret, ad_completed>>
    /\ UNCHANGED <<eoVars, cpVars, roVars>>

\* line 117: scaled_features = self.scaler.fit_transform(feature_matrix)
TrainFitScaler ==
    /\ ad_train.pc = "named"
    /\ ad_scaler' = StandardScaler_fit_transform(ad_scaler,
                        prepare_features(ad_train.cost_data).rows).scaler
    /\ ad_train' = [ad_train EXCEPT !.pc = "scaled"]
    /\ ad_detect' = Overlapped
    /\ UNCHANGED <<ad_model, ad_feature_names, ad_is_trained, ad_baseline_stats,
                   ad_call, ad_ret, ad_completed>>
    /\ UNCHANGED <<eoVars, cpVars, roVars>>

\* line 120: self.model.fit(scaled_features)
TrainFitModel ==
    /\ ad_train.pc = "scaled"
    /\ ad_model' = ForestFit(StandardScaler_fit_transform(ad_scaler,
                                 prepare_features(ad_train.cost_data).rows).X,
                             ad_train.scores)
    /\ ad_train' = [ad_train EXCEPT !.pc = "fitted"]
    /\ ad_detect' = Overlapped
    /\ UNCHANGED <<ad_scaler, ad_feature_names, ad_is_trained, ad_baseline_stats,
                   ad_call, ad_ret, ad_completed>>
    /\ UNCHANGED <<eoVars, cpVars, roVars>>

\* lines 123-129: self.baseline_stats = {...}
TrainSetBaseline ==
    /\ ad_train.pc = "fitted"
    /\ ad_baseline_stats' = Some(BaselineStats(prepare_features(ad_train.cost_data).rows))
    /\ ad_train' = [ad_train EXCEPT !.pc = "measured"]
    /\ ad_detect' = Overlapped
    /\ UNCHANGED <<ad_model, ad_scaler, ad_feature_names, ad_is_trained, ad_call,
                   ad_ret, ad_completed>>
    /\ UNCHANGED <<eoVars, cpVars, roVars>>

\* line 131: self.is_trained = True, and train returns
TrainSetTrained ==
    /\ ad_train.pc = "measured"
    /\ ad_is_trained' = TRUE
    /\ ad_completed' = TRUE
    /\ ad_train' = Idle
    /\ ad_detect' = Overlapped
    /\ UNCHANGED <<ad_model, ad_scaler, ad_feature_names, ad_baseline_stats, ad_call,
                   ad_ret>>
    /\ UNCHANGED <<eoVars, cpVars, roVars>>

\* detect_anomalies, lines 151-156: the is_trained check, then the features
DetectBegin(t, F) ==
    \E cost_data \in F :
        /\ ad_detect[t].pc \in {"idle", "returned", "raised"}
        /\ ad_detect' = [ad_detect EXCEPT ![t] =
              IF ~ad_is_trained
              THEN [pc |-> "raised", cost_data |-> cost_data, status |-> "ValueError"]
              ELSE [pc |-> "checked", cost_data |-> cost_data,
                    overlap |-> (ad_train.pc # "idle")]]
        /\ UNCHANGED <<adVars, ad_train, eoVars, cpVars, roVars>>

\* line 159: feature_matrix = df_features[self.feature_names].fillna(0)
DetectSelectFeatures(t) ==
    /\ ad_detect[t].pc = "checked"
    /\ ad_detect' = [ad_detect EXCEPT ![t] =
          IF \E i \in DOMAIN ad_feature_names :
                ad_feature_names[i] \notin prepare_features(ad_detect[t].cost_data).columns
          THEN [pc |-> "raised", cost_data |-> ad_detect[t].cost_data,
                status |-> "KeyError"]
          ELSE [pc |-> "selected", cost_data |-> ad_detect[t].cost_data,
                overlap |-> ad_detect[t].overlap, feature_names |-> ad_feature_names]]
    /\ UNCHANGED <<adVars, ad_train, eoVars, cpVars, roVars>>

\* line 162: scaled_features = self.scaler.transform(feature_matrix)
DetectScale(t) ==
    /\ ad_detect[t].pc = "selected"
    /\ ad_detect' = [ad_detect EXCEPT ![t] =
          IF ~ad_scaler.fitted
          THEN [pc |-> "raised", cost_data |-> ad_detect[t].cost_data,
                status |-> "NotFittedError"]
          ELSE [pc |-> "scaled", cost_data |-> ad_detect[t].cost_data,
                overlap |-> ad_detect[t].overlap, feature_names |-> ad_detect[t].feature_names,
                scaler |-> ad_scaler,
                X |-> StandardScaler_transform(ad_scaler,
                          prepare_features(ad_detect[t].cost_data).rows).X]]
    /\ UNCHANGED <<adVars, ad_train, eoVars, cpVars, roVars>>

\* lines 165-166: self.model.predict and self.model.score_samples
DetectScore(t) ==
    /\ ad_detect[t].pc = "scaled"
    /\ ad_detect' = [ad_detect EXCEPT ![t] =
          IF ~ad_model.fitted
          THEN [pc |-> "raised", cost_data |-> ad_detect[t].cost_data,
                status |-> "NotFittedError"]
          ELSE [pc |-> "scored", cost_data |-> ad_detect[t].cost_data,
                overlap |-> ad_detect[t].overlap, feature_names |-> ad_detect[t].feature_names,
                scaler |-> ad_detect[t].scaler, X |-> ad_detect[t].X,
                model |-> ad_model]]
    /\ UNCHANGED <<adVars, ad_train, eoVars, cpVars, roVars>>

\* lines 172-175: _calculate_severity reads self.baseline_stats, and the call
\* returns its rows
DetectSeverity(t) ==
    /\ ad_detect[t].pc = "scored"
    /\ ad_detect' = [ad_detect EXCEPT ![t] =
          [pc |-> "returned", cost_data |-> ad_detect[t].cost_data,
           rows |-> DetectRowsOf(ad_detect[t].model, ad_baseline_stats,
                                 prepare_features(ad_detect[t].cost_data),
                                 ad_detect[t].X)]]
    /\ UNCHANGED <<adVars, ad_train, eoVars, cpVars, roVars>>

NextConcurrent ==
    \/ TrainBegin(ConcurrentTrainTables)
    \/ TrainSetFeatureNames
    \/ TrainFitScaler
    \/ TrainFitModel
    \/ TrainSetBaseline
    \/ TrainSetTrained
    \/ \E t \in DetectThreads :
          \/ DetectBegin(t, ConcurrentDetectTables)
          \/ DetectSelectFeatures(t)
          \/ DetectScale(t)
          \/ DetectScore(t)
          \/ DetectSeverity(t)

(***************************************************************************)
(* EnterpriseOptimizer.generate_forecast                                   *)
(***************************************************************************)
\* costs_df.groupby('date')['cost'].sum().reset_index(): one row [ds, y] per
\* distinct date, in ascending order of date
GroupByDate(costs_df) ==
    LET order == Ascending({costs_df[i].date : i \in DOMAIN costs_df})
    IN  [i \in DOMAIN order |-> [ds |-> order[i], y |-> GroupSum(costs_df, order[i]).value]]

\* forecast['yhat'].apply(lambda x: ... x > monthly_budget ...): the lambda
\* reads the name monthly_budget, which generate_forecast has neither as a
\* parameter nor as a local and the module has not as a global, so its first
\* evaluation raises NameError; apply evaluates it once per row.
BudgetStatus(forecast) ==
    IF forecast = <<>> THEN [status |-> "ok", column |-> <<>>]
    ELSE [status |-> "NameError"]

\* generate_forecast(costs_df, days_ahead), shape being what the fitted model
\* answers; Prophet.fit raises ValueError on fewer than 2 rows
generate_forecast(costs_df, days_ahead, shape) ==
    LET prophet_df == GroupByDate(costs_df)
        model == Fit(NewProphet, prophet_df)
        future == make_future_dataframe(model, days_ahead)
        forecast == ModelPredict(future, shape)
        budget_status == BudgetStatus(forecast)
    IN  IF Len(prophet_df) < 2 THEN [status |-> "ValueError"]
        ELSE IF budget_status.status # "ok" THEN [status |-> budget_status.status]
        ELSE [status |-> "ok",
              rows |-> [i \in DOMAIN forecast |->
                           [ds |-> forecast[i].ds, yhat |-> forecast[i].yhat,
                            yhat_lower |-> forecast[i].yhat_lower,
                            yhat_upper |-> forecast[i].yhat_upper,
                            budget_status |-> budget_status.column[i]]]]

\* the histories forecast: up to MaxDays dates, with duplicates of the first
\* date or with its cost missing
ForecastHistories ==
    {History(n, dup, 0, FALSE) : n \in 0..MaxDays, dup \in 0..MaxDup}
    \cup {History(n, 0, 1, FALSE) : n \in 0..MaxDays}
\* the answers of the fitted model tried: yhat inside its interval
OrderedShapes == {s \in ForecastShapes : s.level = 0 /\ s.below >= 0 /\ s.above >= 0}

GenerateForecast ==
    \E costs_df \in ForecastHistories, days_ahead \in 0..MaxHorizon,
       shape \in OrderedShapes :
        /\ eo_call' = [op |-> "generate_forecast", costs_df |-> costs_df,
                       days_ahead |-> days_ahead]
        /\ eo_ret' = Some(generate_forecast(costs_df, days_ahead, shape))
        /\ UNCHANGED <<eo_fields, cpVars, adVars, roVars, ccVars>>

NextEOForecast == GenerateForecast

(***************************************************************************)
(* CostAnomalyDetector.prepare_features: the engineered columns            *)
(***************************************************************************)
\* the longest table whose feature rows are computed; longer than the 7 of
\* `if len(df) > 7`
MaxFeatureRows == 8
\* the window of rolling(window=7, min_periods=1)
RollingWindow == 7

\* a statistic is the fraction num / den, or NaN
NaN == [nan |-> TRUE, num |-> 0, den |-> 1]
Fraction(num, den) == [nan |-> FALSE, num |-> num, den |-> den]

\* np.log1p(cost): ln(1 + cost).  Below -1 it is NaN and at -1 it is -inf,
\* each with a RuntimeWarning; it raises for no cost.
log1p(cost) ==
    IF cost > -1 THEN [kind |-> "finite", of |-> 1 + cost]
    ELSE IF cost = -1 THEN [kind |-> "-inf", of |-> 0]
    ELSE [kind |-> "nan", of |-> 1 + cost]

\* the rows in ascending order of timestamp: df.sort_values('timestamp')
RECURSIVE SortByTimestamp(_)
SortByTimestamp(rows) ==
    IF rows = <<>> THEN <<>>
    ELSE LET m == SetMin({rows[i].timestamp : i \in DOMAIN rows})
             k == SetMin({i \in DOMAIN rows : rows[i].timestamp = m})
         IN  <<rows[k]>> \o SortByTimestamp([i \in 1..(Len(rows) - 1) |->
                                                IF i < k THEN rows[i] ELSE rows[i + 1]])

\* mean(), std() (of the sample: n - 1 below; the fraction is the variance std
\* is the root of) and median() of the costs w; NaN where pandas gives NaN
MeanOf(w) == IF w = <<>> THEN NaN ELSE Fraction(SeqSum(w), Len(w))
StdOf(w) ==
    IF Len(w) < 2 THEN NaN
    ELSE Fraction(Len(w) * SeqSum([i \in DOMAIN w |-> w[i] * w[i]]) - SeqSum(w) * SeqSum(w),
                  Len(w) * (Len(w) - 1))
MedianOf(w) ==
    LET sorted == SortAscending(w)
        n == Len(w)
    IN  IF n = 0 THEN NaN
        ELSE IF n % 2 = 1 THEN Fraction(2 * sorted[(n + 1) \div 2], 2)
        ELSE Fraction(sorted[n \div 2] + sorted[n \div 2 + 1], 2)

\* (cost - mean) / (std + 1e-8): the deviation from the mean, over the std
ZScoreOf(cost, mean, std) ==
    IF mean.nan \/ std.nan THEN [nan |-> TRUE, deviation |-> NaN, std |-> NaN]
    ELSE [nan |-> FALSE, deviation |-> Fraction(cost * mean.den - mean.num, mean.den),
          std |-> std]

\* one row of the result, from the costs w its statistics are taken over
FeatureRow(r, w) ==
    [timestamp |-> r.timestamp, cost |-> r.cost,
     log_cost |-> log1p(r.cost),
     cost_rolling_mean_7d |-> MeanOf(w),
     cost_rolling_std_7d |-> StdOf(w),
     cost_rolling_median_7d |-> MedianOf(w),
     cost_zscore |-> ZScoreOf(r.cost, MeanOf(w), StdOf(w))]

\* every row takes its statistics over the whole column, at any length
FeatureRowsWholeColumn(rows) ==
    [i \in DOMAIN rows |-> FeatureRow(rows[i], CostsOf(rows))]

\* lines 59-79: more than 7 rows are sorted and row i takes its statistics
\* over the rows i-6..i; up to 7 rows stay as they are and every row takes
\* them over the whole column
FeatureRows(rows) ==
    IF Len(rows) > RollingWindow
    THEN LET df == SortByTimestamp(rows)
         IN  [i \in DOMAIN df |->
                FeatureRow(df[i],
                    CostsOf(SubSeq(df, IF i > RollingWindow THEN i - RollingWindow + 1 ELSE 1, i)))]
    ELSE [i \in DOMAIN rows |-> FeatureRow(rows[i], CostsOf(rows))]

\* prepare_features with the engineered columns of every row
engineered_features(cost_data) ==
    IF prepare_features(cost_data).status # "ok"
    THEN [status |-> prepare_features(cost_data).status]
    ELSE [status |-> "ok", columns |-> prepare_features(cost_data).columns,
          rows |-> FeatureRows(cost_data.rows)]

\* the tables tried: up to MaxFeatureRows records of one cost but the last,
\* costs below zero among them, in ascending order of timestamp, and one
\* table without the columns read
FeatureCosts == {-2, -1, 0, 1}
FeatureTables ==
    {[has_columns |-> TRUE, usage_hours |-> FALSE,
      rows |-> TableRows(ConstantThenLast(n, base, last))] :
        n \in 0..MaxFeatureRows, base \in FeatureCosts, last \in FeatureCosts}
    \cup {[has_columns |-> FALSE, usage_hours |-> FALSE, rows |-> TableRows(<<1>>)]}

PrepareFeatures(F) ==
    \E cost_data \in F :
        /\ ad_call' = [op |-> "prepare_features", cost_data |-> cost_data]
        /\ ad_ret' = Some(engineered_features(cost_data))
        /\ UNCHANGED <<ad_model, ad_scaler, ad_feature_names, ad_is_trained,
                       ad_baseline_stats, ad_completed>>
        /\ UNCHANGED <<eoVars, cpVars, roVars, ccVars>>

NextFeatures == PrepareFeatures(FeatureTables)

(***************************************************************************)
(* CostAnomalyDetector.get_anomaly_summary and generate_alerts             *)
(***************************************************************************)
\* the longest result table alerts are generated from
MaxAlertRows == 3

\* round(len(anomalies) / len(df_results) * 100, 2), in hundredths of a
\* percent, a tie to even
RoundRate2(anomalies, total) ==
    LET q == (anomalies * 10000) \div total
        r == (anomalies * 10000) % total
    IN  IF 2 * r < total THEN q
        ELSE IF 2 * r > total THEN q + 1
        ELSE IF q % 2 = 0 THEN q ELSE q + 1

\* get_anomaly_summary: the counts and the rate the alerts read
get_anomaly_summary(df_results) ==
    LET anomalies == SelectSeq(df_results, LAMBDA row : row.is_anomaly)
    IN  IF df_results = <<>>
        THEN [total_records |-> 0, anomalies_detected |-> 0, anomaly_rate |-> 0]
        ELSE [total_records |-> Len(df_results),
              anomalies_detected |-> Len(anomalies),
              anomaly_rate |-> RoundRate2(Len(anomalies), Len(df_results))]

\* the default alert_thresholds, the rate in hundredths of a percent
default_alert_thresholds ==
    [high_severity_cost |-> 1000, medium_severity_cost |-> 5000, anomaly_rate |-> 2000]

\* the rate compared with >= instead of >
RateExceedsOrEqual(anomaly_rate, threshold) == anomaly_rate >= threshold

\* summary['anomaly_rate'] > alert_thresholds['anomaly_rate']
RateExceeds(anomaly_rate, threshold) == anomaly_rate > threshold

\* df_results[is_anomaly & (anomaly_severity == severity) & (cost > threshold)]
SevereAbove(df_results, severity, threshold) ==
    SelectSeq(df_results,
              LAMBDA row : row.is_anomaly /\ row.anomaly_severity = severity
                           /\ row.cost > threshold)

\* one alert per row of a selection
CostAlerts(rows, type, severity) ==
    [i \in DOMAIN rows |->
        [type |-> type, severity |-> severity, cost |-> rows[i].cost,
         timestamp |-> rows[i].timestamp]]

\* generate_alerts(df_results, alert_thresholds); None stands for the default
generate_alerts(df_results, given_thresholds) ==
    LET alert_thresholds == IF given_thresholds = None THEN default_alert_thresholds
                            ELSE given_thresholds[1]
        high_severity == SevereAbove(df_results, "high",
                                     alert_thresholds.high_severity_cost)
        medium_severity == SevereAbove(df_results, "medium",
                                       alert_thresholds.medium_severity_cost)
        summary == get_anomaly_summary(df_results)
    IN  CostAlerts(high_severity, "high_cost_anomaly", "critical")
        \o CostAlerts(medium_severity, "medium_cost_anomaly", "warning")
        \o (IF RateExceeds(summary.anomaly_rate, alert_thresholds.anomaly_rate)
            THEN << [type |-> "high_anomaly_rate", severity |-> "warning",
                     anomaly_count |-> summary.anomalies_detected,
                     total_records |-> summary.total_records] >>
            ELSE <<>>)

\* the rows tried: a high anomaly above and at the default cost threshold, a
\* medium anomaly above its default, a normal row, and a row of high severity
\* that is not flagged
AlertRowKinds ==
    {[is_anomaly |-> TRUE, anomaly_severity |-> "high", cost |-> 1001],
     [is_anomaly |-> TRUE, anomaly_severity |-> "high", cost |-> 1000],
     [is_anomaly |-> TRUE, anomaly_severity |-> "medium", cost |-> 5001],
     [is_anomaly |-> FALSE, anomaly_severity |-> "normal", cost |-> 6000],
     [is_anomaly |-> FALSE, anomaly_severity |-> "high", cost |-> 6000]}
\* a result table of the kinds ks, its timestamps 1, 2, ...
ResultTable(ks) ==
    [i \in DOMAIN ks |->
        [timestamp |-> i, cost |-> ks[i].cost, is_anomaly |-> ks[i].is_anomaly,
         anomaly_severity |-> ks[i].anomaly_severity]]
ResultTables == {ResultTable(ks) : ks \in BatchesOf(AlertRowKinds, MaxAlertRows)}
\* the thresholds tried: the default, and one set with the medium cost one
\* higher and the rate of one row in three, 33.33 percent
AlertThresholds ==
    {None,
     Some([high_severity_cost |-> 1000, medium_severity_cost |-> 5001,
           anomaly_rate |-> 3333])}

GenerateAlerts ==
    \E df_results \in ResultTables, alert_thresholds \in AlertThresholds :
        /\ ad_call' = [op |-> "generate_alerts", df_results |-> df_results,
                       alert_thresholds |-> alert_thresholds]
        /\ ad_ret' = Some(generate_alerts(df_results, alert_thresholds))
        /\ UNCHANGED <<ad_model, ad_scaler, ad_feature_names, ad_is_trained,
                       ad_baseline_stats, ad_completed>>
        /\ UNCHANGED <<eoVars, cpVars, roVars, ccVars>>

NextAlerts == GenerateAlerts

(***************************************************************************)
(* ResourceOptimizer.analyze_resource_utilization and its fallback.  A     *)
(* metric of a resource is a number, NaN (the record has no value for it)  *)
(* or text; a column the table does not have is absent from every record.  *)
(***************************************************************************)
\* the largest number of resources in a table
MaxResources == 3

Num(v) == [kind |-> "number", value |-> v]
NotANumber == [kind |-> "nan", value |-> 0]
Text == [kind |-> "text", value |-> 0]

\* features, line 65, restricted to the two metrics the rules read
utilization_features == {"cpu_utilization", "memory_utilization"}

\* available_features, line 66
available_features(resource_data) == resource_data.columns \cap utilization_features

\* self.scaler.fit_transform(feature_data) raises ValueError on a table with
\* no rows and on a value that is not a number (fillna(0) has replaced NaN)
ScalerRaises(resource_data) ==
    \/ resource_data.rows = <<>>
    \/ \E i \in DOMAIN resource_data.rows, f \in available_features(resource_data) :
           resource_data.rows[i][f].kind = "text"

\* the values of metric over the rows of a cluster that hold a number
NumbersOf(rows, members, metric) ==
    {i \in members : rows[i][metric].kind = "number"}

\* cluster_stats['avg_cpu'] < limit, with the mean as a sum and a count: the
\* mean skips NaN, and the mean of no value is NaN, which is below nothing
MeanBelow(rows, members, metric, limit) ==
    LET held == NumbersOf(rows, members, metric)
    IN  /\ held # {}
        /\ SeqSum([k \in 1..Len(rows) |->
                      IF k \in held THEN rows[k][metric].value ELSE 0])
               < limit * Cardinality(held)

MeanAbove(rows, members, metric, limit) ==
    LET held == NumbersOf(rows, members, metric)
    IN  /\ held # {}
        /\ SeqSum([k \in 1..Len(rows) |->
                      IF k \in held THEN rows[k][metric].value ELSE 0])
               > limit * Cardinality(held)

\* _analyze_clusters, lines 98-128, for one cluster: its type and the savings
\* _calculate_optimization_potential gives it (in percent)
ClusterOf(resource_data, members) ==
    LET rows == resource_data.rows
        has_cpu == "cpu_utilization" \in available_features(resource_data)
        rules == optimization_rules.cpu_utilization
        under == IF has_cpu
                 THEN MeanBelow(rows, members, "cpu_utilization", rules.underutilized)
                 ELSE 0 < rules.underutilized
        over == IF has_cpu
                THEN MeanAbove(rows, members, "cpu_utilization", rules.overutilized)
                ELSE 0 > rules.overutilized
        below20 == IF has_cpu THEN MeanBelow(rows, members, "cpu_utilization", 20)
                   ELSE TRUE
    IN  [type |-> IF under THEN "underutilized"
                  ELSE IF over THEN "overutilized" ELSE "optimal",
         size |-> Cardinality(members),
         potential_savings |-> IF under THEN (IF below20 THEN 70 ELSE 50)
                               ELSE IF over THEN 0 ELSE 30]

_analyze_clusters(resource_data, clusters) ==
    [c \in {clusters[i] : i \in DOMAIN clusters} |->
        ClusterOf(resource_data, {i \in DOMAIN clusters : clusters[i] = c})]

\* _generate_utilization_recommendations, lines 437-455: the resources of the
\* underutilized clusters, cluster by cluster in the order the clusters first
\* appear, from position i of that order on
RECURSIVE UtilizationRecommendations(_, _, _, _)
UtilizationRecommendations(resource_data, clusters, cluster_analysis, seen) ==
    LET rest == {i \in DOMAIN clusters : clusters[i] \notin seen}
    IN  IF rest = {} THEN <<>>
        ELSE LET c == clusters[SetMin(rest)]
                 members == SelectSeq([i \in DOMAIN clusters |-> i],
                                      LAMBDA i : clusters[i] = c)
                 here == IF cluster_analysis[c].type = "underutilized"
                         THEN [k \in DOMAIN members |->
                                  [resource_id |-> resource_data.rows[members[k]].resource_id,
                                   type |-> "rightsizing",
                                   potential_savings |-> cluster_analysis[c].potential_savings,
                                   cluster |-> c]]
                         ELSE <<>>
             IN  here \o UtilizationRecommendations(resource_data, clusters,
                                                    cluster_analysis, seen \cup {c})

\* resource.get(key, 50) on a row of the table
RowGet(resource_data, resource, key) ==
    IF key \in resource_data.columns THEN resource[key] ELSE Num(50)

\* cpu_util < 30 and memory_util < 40, line 415, raises TypeError: text is
\* compared with a number.  The comparison with 40 is made only when the first
\* one holds
FallbackRowRaises(resource_data, resource) ==
    LET cpu_util == RowGet(resource_data, resource, "cpu_utilization")
        memory_util == RowGet(resource_data, resource, "memory_utilization")
    IN  \/ cpu_util.kind = "text"
        \/ /\ cpu_util.kind = "number" /\ cpu_util.value < 30
           /\ memory_util.kind = "text"

\* cpu_util < 30 and memory_util < 40, line 415: NaN is below nothing
FallbackCandidate(resource_data, resource) ==
    LET cpu_util == RowGet(resource_data, resource, "cpu_utilization")
        memory_util == RowGet(resource_data, resource, "memory_utilization")
    IN  /\ cpu_util.kind = "number" /\ cpu_util.value < 30
        /\ memory_util.kind = "number" /\ memory_util.value < 40

\* the dict a recommendation of the fallback is, lines 416-421
FallbackRecommendation(resource) ==
    [resource_id |-> resource.resource_id, type |-> "rightsizing",
     reason |-> "Low CPU and memory utilization", potential_savings |-> 40]

RECURSIVE FallbackRecommendations(_, _)
FallbackRecommendations(resource_data, rows) ==
    IF rows = <<>> THEN <<>>
    ELSE (IF FallbackCandidate(resource_data, Head(rows))
          THEN <<FallbackRecommendation(Head(rows))>> ELSE <<>>)
         \o FallbackRecommendations(resource_data, Tail(rows))

\* _fallback_utilization_analysis, lines 403-435: the rule per resource, and
\* the empty result when the rule itself raises
_fallback_utilization_analysis(resource_data) ==
    IF \E i \in DOMAIN resource_data.rows :
           FallbackRowRaises(resource_data, resource_data.rows[i])
    THEN [status |-> "ok", resource_analysis |-> <<>>, cluster_analysis |-> <<>>,
          recommendations |-> <<>>]
    ELSE [status |-> "ok", resource_analysis |-> resource_data.rows,
          cluster_analysis |-> <<>>,
          recommendations |-> FallbackRecommendations(resource_data,
                                                      resource_data.rows)]

\* the clustering of lines 62-90 cannot run: no utilization column, or the
\* scaler raises
ClusteringRaises(resource_data) ==
    \/ available_features(resource_data) = {}
    \/ ScalerRaises(resource_data)

\* analyze_resource_utilization, lines 51-96; clusters is the label KMeans
\* gives each row
analyze_resource_utilization(resource_data, clusters) ==
    IF ClusteringRaises(resource_data)
    THEN _fallback_utilization_analysis(resource_data)
    ELSE LET cluster_analysis == _analyze_clusters(resource_data, clusters)
         IN  [status |-> "ok", resource_analysis |-> resource_data.rows,
              cluster_analysis |-> cluster_analysis,
              recommendations |-> UtilizationRecommendations(resource_data, clusters,
                                                             cluster_analysis, {})]

\* the fields of the optimizer after the call: line 73 refits self.scaler,
\* line 77 replaces self.kmeans and line 78 fits it
analyze_resource_utilization_fields(fields, resource_data) ==
    IF available_features(resource_data) = {} THEN fields
    ELSE IF ScalerRaises(resource_data)
         THEN [fields EXCEPT !.scaler = EstimatorFit(0, TRUE)]
         ELSE LET n == Len(resource_data.rows)
              IN  [fields EXCEPT
                      !.scaler = EstimatorFit(n, FALSE),
                      !.kmeans = Some([n_clusters |-> IF n < 5 THEN n ELSE 5,
                                       fitted |-> TRUE])]

\* the resources of the tables analysed
UtilizationKinds ==
    { [cpu_utilization |-> Num(10), memory_utilization |-> Num(10)],
      [cpu_utilization |-> Num(30), memory_utilization |-> Num(10)],
      [cpu_utilization |-> Num(29), memory_utilization |-> Num(40)],
      [cpu_utilization |-> NotANumber, memory_utilization |-> Num(39)],
      [cpu_utilization |-> Num(85), memory_utilization |-> Text],
      [cpu_utilization |-> Text, memory_utilization |-> Num(10)] }

\* n resources, the last one of kind last and the others of kind base
UtilizationRows(n, base, last) ==
    [i \in 1..n |->
        LET kind == IF i = n THEN last ELSE base
        IN  [resource_id |-> i, cpu_utilization |-> kind.cpu_utilization,
             memory_utilization |-> kind.memory_utilization]]

UtilizationTables ==
    { [columns |-> columns, rows |-> UtilizationRows(n, base, last)] :
        columns \in {{}, {"cpu_utilization"}, utilization_features},
        n \in 0..MaxResources, base \in UtilizationKinds, last \in UtilizationKinds }

\* the labels KMeans gives n rows: every row a cluster of its own, or one
\* cluster for all
ClusterLabelings(n) == {[i \in 1..n |-> i - 1], [i \in 1..n |-> 0]}

AnalyzeResourceUtilization(tables) ==
    \E resource_data \in tables :
        \E clusters \in ClusterLabelings(Len(resource_data.rows)) :
            /\ ro_call' = [op |-> "analyze_resource_utilization",
                           resource_data |-> resource_data]
            /\ ro_ret' = Some(analyze_resource_utilization(resource_data, clusters))
            /\ ro_fields' = analyze_resource_utilization_fields(ro_fields, resource_data)
            /\ UNCHANGED <<eoVars, cpVars, adVars, ccVars>>

NextUtilization == AnalyzeResourceUtilization(UtilizationTables)


(***************************************************************************)
(* EnterpriseOptimizer.detect_cost_anomalies.  costs_df is [has_columns:   *)
(* whether the four feature columns are there, rows: the records].  What   *)
(* the forest says of a row is the library's: forest gives each row its    *)
(* prediction (-1 an anomaly, 1 not) and its score in hundredths.          *)
(***************************************************************************)
\* the largest number of rows in a costs_df of detect_cost_anomalies
MaxAnomalyRows == 2

\* _analyze_anomaly_cause, lines 152-163
_analyze_anomaly_cause(row) ==
    IF row.cost > 10000
    THEN "High-cost spike - check for resource provisioning errors"
    ELSE IF row.cpu_hours > row.memory_gb * 10
    THEN "CPU-intensive workload - consider compute-optimized instances"
    ELSE IF row.storage_gb > 1000
    THEN "High storage usage - review data lifecycle policies"
    ELSE "Unusual resource pattern - manual investigation recommended"

\* the loop of lines 138-148 from row idx on
RECURSIVE AnomalyDetails(_, _, _)
AnomalyDetails(costs_df, forest, idx) ==
    IF idx > Len(costs_df.rows) THEN <<>>
    ELSE (IF forest[idx].is_anomaly = -1
          THEN << [date |-> costs_df.rows[idx].date,
                   service |-> costs_df.rows[idx].service,
                   cost |-> costs_df.rows[idx].cost,
                   anomaly_score |-> forest[idx].anomaly_score,
                   potential_cause |-> _analyze_anomaly_cause(costs_df.rows[idx])] >>
          ELSE <<>>)
         \o AnomalyDetails(costs_df, forest, idx + 1)

\* sorted(anomaly_details, key=anomaly_score): a stable insertion of d into a
\* sequence already in ascending order
RECURSIVE InsertByScore(_, _)
InsertByScore(d, sorted) ==
    IF sorted = <<>> THEN <<d>>
    ELSE IF Head(sorted).anomaly_score <= d.anomaly_score
         THEN <<Head(sorted)>> \o InsertByScore(d, Tail(sorted))
         ELSE <<d>> \o sorted

RECURSIVE SortByScore(_)
SortByScore(details) ==
    IF details = <<>> THEN <<>>
    ELSE InsertByScore(details[Len(details)],
                       SortByScore(SubSeq(details, 1, Len(details) - 1)))

\* detect_cost_anomalies, lines 127-150: costs_df[features] raises KeyError on
\* a missing column, and the scaler raises ValueError on a table with no rows
detect_cost_anomalies(costs_df, forest) ==
    IF ~costs_df.has_columns THEN [status |-> "KeyError", anomalies |-> <<>>]
    ELSE IF costs_df.rows = <<>> THEN [status |-> "ValueError", anomalies |-> <<>>]
    ELSE [status |-> "ok",
          anomalies |-> SortByScore(AnomalyDetails(costs_df, forest, 1))]

\* the fields of the optimizer after the call: line 133 refits self.scaler and
\* line 136 refits self.anomaly_detector
detect_cost_anomalies_fields(fields, costs_df) ==
    IF ~costs_df.has_columns THEN fields
    ELSE IF costs_df.rows = <<>>
         THEN [fields EXCEPT !.scaler = EstimatorFit(0, TRUE)]
         ELSE [fields EXCEPT
                  !.scaler = EstimatorFit(Len(costs_df.rows), FALSE),
                  !.anomaly_detector = EstimatorFit(Len(costs_df.rows), FALSE)]

\* the records of the tables searched for anomalies
AnomalyRowKinds ==
    { [cost |-> 10001, cpu_hours |-> 0, memory_gb |-> 1, storage_gb |-> 0],
      [cost |-> 10000, cpu_hours |-> 11, memory_gb |-> 1, storage_gb |-> 0],
      [cost |-> 10000, cpu_hours |-> 10, memory_gb |-> 1, storage_gb |-> 1001],
      [cost |-> 10000, cpu_hours |-> 10, memory_gb |-> 1, storage_gb |-> 1000] }

AnomalyRows(kinds) ==
    [i \in DOMAIN kinds |->
        [date |-> i, service |-> "EC2", cost |-> kinds[i].cost,
         cpu_hours |-> kinds[i].cpu_hours, memory_gb |-> kinds[i].memory_gb,
         storage_gb |-> kinds[i].storage_gb]]

AnomalyFrames ==
    { [has_columns |-> has_columns, rows |-> AnomalyRows(kinds)] :
        has_columns \in BOOLEAN,
        kinds \in UNION {[1..n -> AnomalyRowKinds] : n \in 0..MaxAnomalyRows} }

\* what the forest can say of n rows
ForestAnswers(n) ==
    [1..n -> { [is_anomaly |-> 1, anomaly_score |-> -40],
               [is_anomaly |-> -1, anomaly_score |-> -60],
               [is_anomaly |-> -1, anomaly_score |-> -70] }]

DetectCostAnomalies(frames) ==
    \E costs_df \in frames :
        \E forest \in ForestAnswers(Len(costs_df.rows)) :
            /\ eo_call' = [op |-> "detect_cost_anomalies", costs_df |-> costs_df]
            /\ eo_ret' = Some(detect_cost_anomalies(costs_df, forest))
            /\ eo_fields' = detect_cost_anomalies_fields(eo_fields, costs_df)
            /\ UNCHANGED <<cpVars, adVars, roVars, ccVars>>

(***************************************************************************)
(* The six analysis calls of the Optimization Rule Engine on one           *)
(* EnterpriseOptimizer and one ResourceOptimizer, each on a few inputs.    *)
(***************************************************************************)
EngineBudgets == {250000, 7000000}
EngineCostFrames == {[cost |-> <<1, 2>>, numeric |-> TRUE]}
EngineAnomalyFrames ==
    {f \in AnomalyFrames :
        /\ Len(f.rows) <= 1
        /\ \A i \in DOMAIN f.rows : f.rows[i].cost = 10001}
EngineUtilizationTables ==
    {t \in UtilizationTables :
        /\ Len(t.rows) <= 1
        /\ "cpu_utilization" \in t.columns => t.columns = utilization_features
        /\ \A i \in DOMAIN t.rows :
               /\ t.rows[i].cpu_utilization \in {Num(10), Text}
               /\ t.rows[i].memory_utilization = Num(10)}
EngineInstanceLists == {<<>>, sample_instances}
EngineStorageTables == {<<>>, <<sample_storage>>}

NextEngine ==
    \/ AnalyzeResourceUtilization(EngineUtilizationTables)
    \/ GenerateRightsizingRecommendations(EngineInstanceLists)
    \/ AnalyzeStorageOptimization(EngineStorageTables)
    \/ AnalyzeBudgetCategory(EngineBudgets)
    \/ OptimizeForBudget(EngineCostFrames, EngineBudgets)
    \/ DetectCostAnomalies(EngineAnomalyFrames)


Init == InitEO /\ InitCP /\ InitAD /\ InitRO /\ InitCC

SpecForecast == Init /\ [][NextForecast]_vars

SpecBudget == Init /\ [][NextEO]_vars

SpecDetect == Init /\ [][NextDetect]_vars

SpecInference == Init /\ [][NextInference]_vars

SpecRightsizing == Init /\ [][NextRightsizing]_vars

SpecRecommend == Init /\ [][NextRecommend]_vars

SpecConcurrent == Init /\ [][NextConcurrent]_vars

SpecEnterpriseForecast == Init /\ [][NextEOForecast]_vars

SpecFeatures == Init /\ [][NextFeatures]_vars

SpecBatch == Init /\ [][NextBatch]_vars

SpecAlerts == Init /\ [][NextAlerts]_vars

SpecUtilization == Init /\ [][NextUtilization]_vars

SpecEngine == Init /\ [][NextEngine]_vars

(***************************************************************************)
(* Claims                                                                  *)
(***************************************************************************)
\* C1: analyze_budget_category is total and single-valued on budgets >= 0: the
\* call returns one of the four categories, and each boundary value returns the
\* higher bracket: 100000 small, 500000 medium, 2000000 large, 5000000 enterprise.
C1_CategoryTotalBoundaryHigher ==
    (eo_call.op = "analyze_budget_category" /\ eo_call.monthly_budget >= 0) =>
        /\ eo_ret # None
        /\ eo_ret[1] \in Categories
        /\ (eo_call.monthly_budget = 100000 => eo_ret[1] = "small")
        /\ (eo_call.monthly_budget = 500000 => eo_ret[1] = "medium")
        /\ (eo_call.monthly_budget = 2000000 => eo_ret[1] = "large")
        /\ (eo_call.monthly_budget = 5000000 => eo_ret[1] = "enterprise")

C1_Witness ==
    /\ eo_call.op = "analyze_budget_category"
    /\ eo_call.monthly_budget = 500000
    /\ eo_ret = Some("medium")

\* C2: analyze_budget_category returns enterprise for every budget >= 5000000 and
\* for every budget below 100000, and returns small, medium or large only for
\* budgets in [100000, 5000000).
C2_EnterpriseIsDefault ==
    eo_call.op = "analyze_budget_category" =>
        /\ (eo_call.monthly_budget >= 5000000 \/ eo_call.monthly_budget < 100000)
               => eo_ret[1] = "enterprise"
        /\ eo_ret[1] \in {"small", "medium", "large"}
               => (100000 <= eo_call.monthly_budget /\ eo_call.monthly_budget < 5000000)

C2_Witness ==
    /\ eo_call.op = "analyze_budget_category"
    /\ eo_call.monthly_budget = 0
    /\ eo_ret = Some("enterprise")

\* C3: every result of optimize_for_budget has
\* annual_savings = projected_monthly_savings * 12.
C3_AnnualIsTwelveMonths ==
    (eo_call.op = "optimize_for_budget" /\ eo_ret[1].status = "ok") =>
        eo_ret[1].annual_savings = eo_ret[1].projected_monthly_savings * 12

C3_Witness ==
    /\ eo_call.op = "optimize_for_budget"
    /\ eo_ret[1].status = "ok"
    /\ eo_ret[1].projected_monthly_savings > 0
    /\ eo_ret[1].budget_category = "large"

NotTrainedDetect ==
    [status |-> "ValueError",
     message |-> "Model must be trained before detecting anomalies"]
NotTrainedPredict ==
    [status |-> "ValueError",
     message |-> "Model must be trained before making predictions"]

\* C5: a detect_anomalies call on a detector no train call of which has returned,
\* and a predict call on a forecaster no train_model call of which has returned,
\* raises the not-trained error, returns no result, and leaves every field of the
\* instance as it was, is_trained false.
C5_InferenceBeforeTraining ==
    [][ /\ (ad_call'.op = "detect_anomalies" /\ ~ad_completed) =>
              /\ ad_ret' = Some(NotTrainedDetect)
              /\ ~ad_is_trained'
              /\ UNCHANGED <<ad_model, ad_scaler, ad_is_trained, ad_feature_names,
                             ad_baseline_stats>>
        /\ (cp_call'.op = "predict" /\ ~cp_completed) =>
              /\ cp_ret' = Some(NotTrainedPredict)
              /\ ~cp_is_trained'
              /\ UNCHANGED <<cp_model, cp_is_trained, cp_last_training_date,
                             cp_model_accuracy>>
      ]_vars

\* both calls made after a training of each instance has failed part-way
C5_Witness ==
    /\ ~ad_completed /\ ad_call.op = "detect_anomalies"
    /\ ad_feature_names # <<>>
    /\ ad_ret = Some(NotTrainedDetect)
    /\ ~cp_completed /\ cp_call.op = "predict"
    /\ cp_model # None
    /\ cp_ret = Some(NotTrainedPredict)

DistinctDates(cost_data) == {cost_data[i].date : i \in DOMAIN cost_data}
InsufficientHistory ==
    [status |-> "ValueError", message |-> "Need at least 14 days of data for training"]

\* C6: train_model raises the insufficient-history error whenever its history has
\* fewer than 14 distinct dates, however many records, and then leaves model,
\* is_trained, model_accuracy and last_training_date as they were; with 14 or
\* more distinct dates it never raises that error.
C6_InsufficientHistory ==
    [][ cp_call'.op = "train_model" =>
          LET n == Cardinality(DistinctDates(cp_call'.cost_data))
          IN  /\ n < 14 =>
                    /\ cp_ret' = Some(InsufficientHistory)
                    /\ UNCHANGED <<cp_model, cp_is_trained, cp_model_accuracy,
                                   cp_last_training_date>>
              /\ n >= 14 => cp_ret' # Some(InsufficientHistory)
      ]_vars

\* 14 records on 13 dates, refused on a forecaster that is already trained
C6_Witness ==
    /\ cp_call.op = "train_model"
    /\ Len(cp_call.cost_data) >= 14
    /\ Cardinality(DistinctDates(cp_call.cost_data)) = 13
    /\ cp_ret = Some(InsufficientHistory)
    /\ cp_is_trained /\ cp_model # None /\ cp_model[1].fitted

\* C7: predict(n) on a trained forecaster returns exactly n points, one per
\* future day in ascending order of date, and every point has
\* 0 <= confidence_lower <= predicted_cost <= confidence_upper, whatever the
\* fitted model produced before the clipping.
C7_ForecastPointsOrdered ==
    (cp_call.op = "predict" /\ cp_ret[1].status = "ok") =>
        LET p == cp_ret[1].predictions
        IN  /\ Len(p) = cp_call.days_ahead
            /\ \A i \in DOMAIN p :
                  /\ p[i].date = cp_call.last_history_date + i
                  /\ 0 <= p[i].confidence_lower
                  /\ p[i].confidence_lower <= p[i].predicted_cost
                  /\ p[i].predicted_cost <= p[i].confidence_upper

SeverityRank(severity) ==
    CASE severity = "normal" -> 0
      [] severity = "low" -> 1
      [] severity = "medium" -> 2
      [] severity = "high" -> 3

\* the severity the score alone gives, as the specification states it
StatedScoreSeverity(s) ==
    IF s < -50 THEN "high"
    ELSE IF -50 <= s /\ s < -20 THEN "medium"
    ELSE IF -20 <= s /\ s < 0 THEN "low"
    ELSE "normal"

\* the rows [score, cost, severity] of the last call, of _calculate_severity or
\* of detect_anomalies
SeverityRows ==
    IF ad_call.op = "_calculate_severity" /\ ad_ret[1].status = "ok"
    THEN [i \in DOMAIN ad_ret[1].severities |->
             [score |-> ad_call.anomaly_scores[i], cost |-> ad_call.costs[i],
              severity |-> ad_ret[1].severities[i]]]
    ELSE IF ad_call.op = "detect_anomalies" /\ ad_ret[1].status = "ok"
    THEN [i \in DOMAIN ad_ret[1].rows |->
             [score |-> ad_ret[1].rows[i].anomaly_score,
              cost |-> ad_ret[1].rows[i].cost,
              severity |-> ad_ret[1].rows[i].anomaly_severity]]
    ELSE <<>>

\* cost > 2 * the p95 cost of the training
AboveTwiceP95(cost) == 20 * cost > 2 * ad_baseline_stats[1].p95_cost_x20

\* C8: the final severity is never below the severity the score alone gives; it
\* is one level above it exactly when cost > 2 * training p95 and the score's
\* severity is low or medium, and equal to it otherwise: normal and high never
\* change, and a cost of exactly 2 * p95 does not escalate.
C8_EscalationNeverDowngrades ==
    \A i \in DOMAIN SeverityRows :
        LET r == SeverityRows[i]
            base == StatedScoreSeverity(r.score)
            raised == AboveTwiceP95(r.cost) /\ base \in {"low", "medium"}
        IN  /\ SeverityRank(r.severity) >= SeverityRank(base)
            /\ raised => SeverityRank(r.severity) = SeverityRank(base) + 1
            /\ ~raised => r.severity = base

\* a row whose score alone gives low, at a cost above twice the p95, comes out
\* of _calculate_severity as medium
C8_Witness ==
    /\ ad_call.op = "_calculate_severity"
    /\ ad_ret[1].status = "ok"
    /\ \E i \in DOMAIN SeverityRows :
          /\ StatedScoreSeverity(SeverityRows[i].score) = "low"
          /\ AboveTwiceP95(SeverityRows[i].cost)
          /\ SeverityRows[i].severity = "medium"

\* C9: where the cost does not escalate, the severity of a row is the function
\* of its score alone: high below -0.5, medium in [-0.5, -0.2), low in [-0.2, 0),
\* normal from 0 up; -0.5, -0.2 and 0 give medium, low and normal.
C9_SeverityFromScore ==
    \A i \in DOMAIN SeverityRows :
        LET r == SeverityRows[i]
        IN  ~AboveTwiceP95(r.cost) =>
                /\ r.severity = StatedScoreSeverity(r.score)
                /\ r.score = -50 => r.severity = "medium"
                /\ r.score = -20 => r.severity = "low"
                /\ r.score = 0 => r.severity = "normal"

C9_Witness ==
    /\ ad_call.op = "_calculate_severity"
    /\ ad_ret[1].status = "ok"
    /\ \E i \in DOMAIN SeverityRows :
          /\ SeverityRows[i].score = -50
          /\ ~AboveTwiceP95(SeverityRows[i].cost)
          /\ SeverityRows[i].severity = "medium"

\* C10: a detect_anomalies call changes none of feature_names, scaler, model,
\* baseline_stats and is_trained; a call that returns gives one result per input
\* row; and a call that follows a detect_anomalies call with the same input
\* returns what that call returned.
C10_DetectReadOnly ==
    [][ ad_call'.op = "detect_anomalies" =>
          /\ UNCHANGED <<ad_feature_names, ad_scaler, ad_model, ad_baseline_stats,
                         ad_is_trained>>
          /\ ad_ret'[1].status = "ok" =>
                Len(ad_ret'[1].rows) = Len(ad_call'.cost_data.rows)
          /\ (ad_call.op = "detect_anomalies" /\ ad_call.cost_data = ad_call'.cost_data)
                => ad_ret' = ad_ret
      ]_vars

\* a returned detection of two rows, one of them flagged
C10_Witness ==
    /\ ad_call.op = "detect_anomalies"
    /\ ad_ret[1].status = "ok"
    /\ Len(ad_ret[1].rows) = 2
    /\ \E i \in DOMAIN ad_ret[1].rows : ad_ret[1].rows[i].is_anomaly
    /\ \E i \in DOMAIN ad_ret[1].rows : ~ad_ret[1].rows[i].is_anomaly

\* the catalog entry of a type returned by a catalog search
ChosenSpec == TypeSpec(AvailableTypes(instance_hierarchy, ro_call.provider), ro_ret[1])
CurrentSpec ==
    TypeSpec(AvailableTypes(instance_hierarchy, ro_call.provider), ro_call.current_type)

\* an entry meets both headroom-adjusted requirements of the search in progress:
\* cpu >= current_cpu * cpu_util% * 1.2 and memory >= current_memory * memory_util% * 1.2
MeetsHeadroom(spec) ==
    /\ spec.cpu * 1000 >= CurrentSpec[1].cpu * ro_call.cpu_util * 12
    /\ spec.memory * 1000 >= CurrentSpec[1].memory * ro_call.memory_util * 12

\* C11: the entry chosen by _find_optimal_instance_type, when it differs from
\* the current type, meets both headroom-adjusted requirements and is the
\* cheapest entry of the provider that does; when the current type is not in the
\* catalog, or no entry that meets them is cheaper than it, the current type is
\* returned.
C11_OptimalMeetsHeadroom ==
    ro_call.op = "_find_optimal_instance_type" =>
        LET available_types == AvailableTypes(instance_hierarchy, ro_call.provider)
            qualifying == {i \in DOMAIN available_types :
                              MeetsHeadroom(available_types[i])}
        IN  IF CurrentSpec = None THEN ro_ret[1] = ro_call.current_type
            ELSE /\ ro_ret[1] # ro_call.current_type =>
                       /\ MeetsHeadroom(ChosenSpec[1])
                       /\ \A i \in qualifying :
                             available_types[i].cost >= ChosenSpec[1].cost
                 /\ (\A i \in qualifying :
                         available_types[i].cost >= CurrentSpec[1].cost)
                       => ro_ret[1] = ro_call.current_type

\* the confidence as stated: min(0.95, 0.5 + cpu bonus + memory bonus + savings bonus)
StatedConfidence(cpu_util, memory_util, savings_ratio) ==
    LET cpu == IF cpu_util < 20 THEN 30 ELSE IF cpu_util < 40 THEN 20 ELSE 0
        memory == IF memory_util < 30 THEN 20 ELSE IF memory_util < 50 THEN 10 ELSE 0
        savings == IF savings_ratio.num * 10 > savings_ratio.den * 5 THEN 20
                   ELSE IF savings_ratio.num * 10 > savings_ratio.den * 3 THEN 10 ELSE 0
        total == 50 + cpu + memory + savings
    IN  IF total < 95 THEN total ELSE 95

\* C13: the confidence returned is the stated one and lies in [0.5, 0.95]; no
\* call with a higher cpu or memory utilization and the same savings ratio gets a
\* higher one, no call with a higher savings ratio gets a lower one; and at
\* cpu 25, memory 30 it is above that of cpu 75, memory 80 at any savings ratio.
C13_ConfidenceBoundedMonotone ==
    ro_call.op = "_calculate_recommendation_confidence" =>
        LET cpu_util == ro_call.cpu_util
            memory_util == ro_call.memory_util
            savings_ratio == ro_call.savings_ratio
            confidence == ro_ret[1]
        IN  /\ confidence = StatedConfidence(cpu_util, memory_util, savings_ratio)
            /\ 50 <= confidence /\ confidence <= 95
            /\ \A c \in ConfidenceCpu, m \in ConfidenceMemory :
                  (c >= cpu_util /\ m >= memory_util) =>
                      _calculate_recommendation_confidence(c, m, savings_ratio)
                          <= confidence
            /\ \A r \in ConfidenceRatios :
                  r.num * savings_ratio.den >= savings_ratio.num * r.den =>
                      _calculate_recommendation_confidence(cpu_util, memory_util, r)
                          >= confidence
            /\ (cpu_util = 25 /\ memory_util = 30) =>
                  \A r \in ConfidenceRatios :
                      confidence > _calculate_recommendation_confidence(75, 80, r)

\* the confidence of cpu 25, memory 30 with the smallest savings ratio tried
C13_Witness ==
    /\ ro_call.op = "_calculate_recommendation_confidence"
    /\ ro_call.cpu_util = 25 /\ ro_call.memory_util = 30
    /\ ro_call.savings_ratio = Ratio(10, 100)
    /\ ro_ret[1] = 80

\* the tier ladders as stated: the inclusive upper bound of each tier but the last
StatedLadder(provider) ==
    IF provider = "aws"
    THEN << <<30, "standard">>, <<90, "standard_ia">>, <<365, "glacier">> >>
    ELSE << <<30, "hot">>, <<90, "cool">> >>
StatedTier(provider, days) ==
    LET ladder == StatedLadder(provider)
        fits == {i \in DOMAIN ladder : days <= ladder[i][1]}
    IN  IF fits # {} THEN ladder[SetMin(fits)][2]
        ELSE IF provider = "aws" THEN "glacier_deep" ELSE "archive"

\* C14: for aws and azure _get_optimal_storage_class returns the tier of the
\* stated ladder, each bound day in the warmer tier, and size_gb times that
\* tier's price; aws at 15 days is standard, at 45 days is not.
C14_StorageTierLadder ==
    (ro_call.op = "_get_optimal_storage_class" /\ ro_call.provider \in {"aws", "azure"}) =>
        LET tier == StatedTier(ro_call.provider, ro_call.last_accessed_days)
        IN  /\ ro_ret[1].optimal_class = tier
            /\ ro_ret[1].projected_cost = ro_call.size_gb * pricing[ro_call.provider][tier]
            /\ (ro_call.provider = "aws" /\ ro_call.last_accessed_days = 15)
                  => ro_ret[1].optimal_class = "standard"
            /\ (ro_call.provider = "aws" /\ ro_call.last_accessed_days = 45)
                  => ro_ret[1].optimal_class # "standard"

\* aws data last accessed 365 days ago, 1000 GB of it: glacier at 4.00
C14_Witness ==
    /\ ro_call.op = "_get_optimal_storage_class"
    /\ ro_call.provider = "aws" /\ ro_call.last_accessed_days = 365
    /\ ro_call.size_gb = 1000
    /\ ro_ret[1] = [optimal_class |-> "glacier", projected_cost |-> 400000]

\* what a generator call is about: the fields of a rightsizing or a storage
\* recommendation under common names, the threshold, and the money unit
IsGeneratorCall ==
    ro_call.op \in {"generate_rightsizing_recommendations", "analyze_storage_optimization"}
IsRightsizingCall == ro_call.op = "generate_rightsizing_recommendations"
Threshold == IF IsRightsizingCall THEN RightsizingThreshold ELSE StorageThreshold
OneCent == IF IsRightsizingCall THEN 10 ELSE 1000
CurrentTarget(rec) ==
    IF IsRightsizingCall THEN rec.current_instance ELSE rec.current_storage_class
RecommendedTarget(rec) ==
    IF IsRightsizingCall THEN rec.recommended_instance ELSE rec.recommended_storage_class
Resources == IF IsRightsizingCall THEN ro_call.instances ELSE ro_call.storage_data

\* the target the code finds for a resource and what it saves, before rounding
TargetOf(resource) ==
    IF IsRightsizingCall
    THEN _find_optimal_instance_type(resource.provider, resource.instance_type,
             resource.cpu_utilization, resource.memory_utilization, instance_hierarchy)
    ELSE _get_optimal_storage_class(resource.provider, resource.last_accessed_days,
             resource.monthly_cost, resource.size_gb).optimal_class
CurrentOf(resource) ==
    IF IsRightsizingCall THEN resource.instance_type ELSE resource.storage_class
SavingsOf(resource) ==
    IF IsRightsizingCall
    THEN resource.monthly_cost
           - TypeSpec(instance_hierarchy[resource.provider], TargetOf(resource))[1].cost
    ELSE resource.monthly_cost
           - _get_optimal_storage_class(resource.provider, resource.last_accessed_days,
                 resource.monthly_cost, resource.size_gb).projected_cost
\* a resource that can get a recommendation at all
HasTarget(resource) ==
    /\ IsRightsizingCall => resource.provider \in DOMAIN instance_hierarchy
    /\ TargetOf(resource) # CurrentOf(resource)

C15_NoHalfTrainedState ==
    [][/\ ad_is_trained => ad_is_trained'
       /\ (/\ ad_is_trained
           /\ ad_call'.op = "train"
           /\ ad_ret' # <<>>
           /\ ad_ret'[1].status # "ok")
          => UNCHANGED <<ad_feature_names, ad_scaler, ad_model, ad_baseline_stats>>]_vars

\* the fields one completed training leaves
OneTraining(feature_names, scaler, model, baseline_stats) ==
    \E cost_data \in ConcurrentTrainTables, scores \in ConcurrentScores :
        LET df_features == prepare_features(cost_data)
            fitted == StandardScaler_fit_transform(UnfittedScaler, df_features.rows)
        IN  /\ feature_names = AvailableFeatures(df_features.columns)
            /\ scaler = fitted.scaler
            /\ model = ForestFit(fitted.X, scores)
            /\ baseline_stats = Some(BaselineStats(df_features.rows))

\* the rows the call of thread t returns when it runs alone on the detector
\* as it is
RunAlone(t) ==
    DetectRowsOf(ad_model, ad_baseline_stats, prepare_features(ad_detect[t].cost_data),
                 StandardScaler_transform(ad_scaler,
                     prepare_features(ad_detect[t].cost_data).rows).X)

ValidHistory(costs_df) ==
    /\ Cardinality({costs_df[i].date : i \in DOMAIN costs_df}) >= 2
    /\ \A i \in DOMAIN costs_df : ~costs_df[i].nan

\* C17: generate_forecast completes without error on every valid history and
\* returns more rows than the history has dates, each with
\* yhat_lower <= yhat <= yhat_upper.
C17_ForecastCompletes ==
    (eo_call.op = "generate_forecast" /\ ValidHistory(eo_call.costs_df))
    => /\ eo_ret[1].status = "ok"
       /\ Len(eo_ret[1].rows) >
              Cardinality({eo_call.costs_df[i].date : i \in DOMAIN eo_call.costs_df})
       /\ \A i \in DOMAIN eo_ret[1].rows :
             /\ eo_ret[1].rows[i].yhat_lower <= eo_ret[1].rows[i].yhat
             /\ eo_ret[1].rows[i].yhat <= eo_ret[1].rows[i].yhat_upper

\* the dates of a history, and those all of whose records miss their cost
DatesOf(cost_data) == {cost_data[i].date : i \in DOMAIN cost_data}
MissingDates(cost_data) ==
    {d \in DatesOf(cost_data) :
        \A i \in DOMAIN cost_data : cost_data[i].date = d => cost_data[i].nan}
\* the sum of the costs recorded for date d
DateSum(cost_data, d) ==
    LET group == SelectSeq(cost_data, LAMBDA r : r.date = d /\ ~r.nan)
    IN  SeqSum([i \in DOMAIN group |-> group[i].cost])

\* C18: in the series prepare_data makes of the history train_model is given,
\* a date all of whose costs are missing does not appear, so the series is
\* shorter than the number of distinct dates when there is such a date;
\* every other date appears once, in ascending order, with the sum of its
\* costs.
C18_MissingDatesDropped ==
    cp_call.op = "train_model"
    => LET cost_data == cp_call.cost_data
           df_prophet == prepare_data(cost_data)
       IN  /\ \A i \in DOMAIN df_prophet : df_prophet[i].ds \notin MissingDates(cost_data)
           /\ MissingDates(cost_data) # {}
              => Len(df_prophet) < Cardinality(DatesOf(cost_data))
           /\ \A d \in DatesOf(cost_data) \ MissingDates(cost_data) :
                 \E i \in DOMAIN df_prophet :
                    /\ df_prophet[i].ds = d
                    /\ df_prophet[i].y = DateSum(cost_data, d)
                    /\ \A j \in DOMAIN df_prophet : df_prophet[j].ds = d => j = i
           /\ \A i, j \in DOMAIN df_prophet : i < j => df_prophet[i].ds < df_prophet[j].ds

\* C19: prepare_features fails with the invalid-record error on every table
\* that has a record of cost below zero, and makes no feature row of it.
C19_NegativeCostRejected ==
    (/\ ad_call.op = "prepare_features"
     /\ ad_call.cost_data.has_columns
     /\ \E i \in DOMAIN ad_call.cost_data.rows : ad_call.cost_data.rows[i].cost < 0)
    => ad_ret[1].status = "InvalidRecord"

\* the rolling statistics and the z-score of a feature row
StatisticsOf(row) ==
    <<row.cost_rolling_mean_7d, row.cost_rolling_std_7d, row.cost_rolling_median_7d,
      row.cost_zscore>>
\* table other has the records of table cost_data up to timestamp t, and
\* whatever costs after it
SameUpTo(cost_data, other, t) ==
    /\ other.has_columns
    /\ Len(other.rows) = Len(cost_data.rows)
    /\ \A i \in DOMAIN other.rows :
          /\ other.rows[i].timestamp = cost_data.rows[i].timestamp
          /\ other.rows[i].timestamp <= t => other.rows[i].cost = cost_data.rows[i].cost

SevenEndingAt(rows, i) ==
    CostsOf(SubSeq(rows, IF i > 7 THEN i - 6 ELSE 1, i))

\* C21: prepare_features returns one feature row per record; on an input of
\* at least 7 records, one of exactly 7 included, each row carries the mean,
\* std and median of the 7-record window ending at it, and only on an input
\* of fewer than 7 records those of the whole cost column.
C21_RollingFromSevenRecords ==
    (ad_call.op = "prepare_features" /\ ad_ret[1].status = "ok")
    => LET rows == ad_call.cost_data.rows
           out == ad_ret[1].rows
       IN  /\ Len(out) = Len(rows)
           /\ \A i \in DOMAIN out :
                 LET w == IF Len(rows) >= 7 THEN SevenEndingAt(SortByTimestamp(rows), i)
                          ELSE CostsOf(rows)
                 IN  /\ out[i].cost_rolling_mean_7d = MeanOf(w)
                     /\ out[i].cost_rolling_std_7d = StdOf(w)
                     /\ out[i].cost_rolling_median_7d = MedianOf(w)

\* the position in the input of the resource a recommendation is about
PositionOf(resources, resource_id) ==
    CHOOSE k \in DOMAIN resources : resources[k].resource_id = resource_id

\* recommendations in descending order of monthly_savings, those that save
\* the same in the order of their resources in the input
SavingsDescendingStable(recommendations, resources) ==
    \A i, j \in DOMAIN recommendations :
        i < j =>
           \/ recommendations[i].monthly_savings > recommendations[j].monthly_savings
           \/ /\ recommendations[i].monthly_savings = recommendations[j].monthly_savings
              /\ PositionOf(resources, recommendations[i].resource_id)
                    < PositionOf(resources, recommendations[j].resource_id)

\* C22: the list generate_rightsizing_recommendations returns is in
\* descending order of monthly_savings, and recommendations that save the
\* same come in the order of their instances in the input.
C22_RightsizingSortedStable ==
    ro_call.op = "generate_rightsizing_recommendations"
    => SavingsDescendingStable(ro_ret[1], ro_call.instances)

\* three recommendations have been returned: two that save the same and one
\* that saves more and came first in the input after one of them
C22_Witness ==
    /\ ro_call.op = "generate_rightsizing_recommendations"
    /\ Len(ro_ret[1]) = 3
    /\ \E i, j \in DOMAIN ro_ret[1] :
          i < j /\ ro_ret[1][i].monthly_savings = ro_ret[1][j].monthly_savings
    /\ \E i, j \in DOMAIN ro_ret[1] :
          /\ i < j
          /\ ro_ret[1][i].monthly_savings > ro_ret[1][j].monthly_savings
          /\ PositionOf(ro_call.instances, ro_ret[1][i].resource_id)
                > PositionOf(ro_call.instances, ro_ret[1][j].resource_id)

\* C23: the list analyze_storage_optimization returns is in descending order
\* of monthly_savings with ties in input order, whatever the order of the
\* storage records.
C23_StorageSortedStable ==
    ro_call.op = "analyze_storage_optimization"
    => SavingsDescendingStable(ro_ret[1], ro_call.storage_data)

\* processing the element raises inside the loop
ProcessingRaises(op, element) ==
    \/ element.py # "mapping"
    \/ /\ op = "rightsizing_batch"
       /\ element.item.provider \in DOMAIN instance_hierarchy
       /\ TypeSpec(instance_hierarchy[element.item.provider],
                   element.item.instance_type) # None
       /\ element.bad_keys \cap {"cpu_utilization", "memory_utilization"} # {}
    \/ /\ op = "storage_batch"
       /\ element.item.provider \in DOMAIN pricing
       /\ "size_gb" \in element.bad_keys

\* the batch without its k-th element
Without(batch, k) == [i \in 1..(Len(batch) - 1) |-> IF i < k THEN batch[i] ELSE batch[i + 1]]

\* the result of the generator op on a batch
BatchResult(op, batch) ==
    IF op = "rightsizing_batch" THEN rightsizing_batch(batch) ELSE storage_batch(batch)

\* C24: when processing one resource of a batch raises, the generator still
\* returns normally, and returns what it returns for the batch without that
\* resource.
C24_ResourceFailuresIsolated ==
    ro_call.op \in {"rightsizing_batch", "storage_batch"}
    => \A k \in DOMAIN ro_call.batch :
          ProcessingRaises(ro_call.op, ro_call.batch[k])
          => /\ ro_ret[1].status = "ok"
             /\ ro_ret[1] = BatchResult(ro_call.op, Without(ro_call.batch, k))

\* the thresholds of the call in the state
CallThresholds ==
    IF ad_call.alert_thresholds = None
    THEN [high_severity_cost |-> 1000, medium_severity_cost |-> 5000, anomaly_rate |-> 2000]
    ELSE ad_call.alert_thresholds[1]
\* the timestamps of the rows flagged with a severity and a cost above t, in
\* the order of the table
FlaggedAbove(severity, t) ==
    LET rows == ad_call.df_results
        hit == SelectSeq([i \in DOMAIN rows |-> i],
                         LAMBDA i : rows[i].is_anomaly
                                    /\ rows[i].anomaly_severity = severity
                                    /\ rows[i].cost > t)
    IN  [k \in DOMAIN hit |-> rows[hit[k]].timestamp]
\* the number of rows flagged anomalous
FlaggedCount ==
    Cardinality({i \in DOMAIN ad_call.df_results : ad_call.df_results[i].is_anomaly})

\* the alerts are: a critical one per high row above high_severity_cost, then
\* a warning per medium row above medium_severity_cost, then the aggregate
\* warning if and only if aggregate
AlertsAre(alerts, aggregate) ==
    LET high == FlaggedAbove("high", CallThresholds.high_severity_cost)
        medium == FlaggedAbove("medium", CallThresholds.medium_severity_cost)
    IN  /\ Len(alerts) = Len(high) + Len(medium) + (IF aggregate THEN 1 ELSE 0)
        /\ \A k \in DOMAIN high :
              /\ alerts[k].severity = "critical"
              /\ alerts[k].type = "high_cost_anomaly"
              /\ alerts[k].timestamp = high[k]
        /\ \A k \in DOMAIN medium :
              /\ alerts[Len(high) + k].severity = "warning"
              /\ alerts[Len(high) + k].type = "medium_cost_anomaly"
              /\ alerts[Len(high) + k].timestamp = medium[k]
        /\ aggregate =>
              /\ alerts[Len(alerts)].severity = "warning"
              /\ alerts[Len(alerts)].type = "high_anomaly_rate"

RateRounded ==
    LET n == Len(ad_call.df_results)
        q == (FlaggedCount * 10000) \div n
        r == (FlaggedCount * 10000) % n
    IN  IF 2 * r < n \/ (2 * r = n /\ q % 2 = 0) THEN q ELSE q + 1

C26_AccuracyBestEffort ==
    [][/\ (cp_call'.op = "train_model"
           /\ cp_ret'[1].status \notin {"ValueError", "Exception"})
          => /\ cp_ret'[1].status = "ok"
             /\ cp_is_trained'
             /\ cp_model_accuracy' # None
             /\ cp_model_accuracy'[1] >= 0 /\ cp_model_accuracy'[1] <= 100
             /\ cp_ret'[1].warned => cp_model_accuracy'[1] = 85
       /\ cp_is_trained' => cp_model_accuracy' # None]_vars

\* a training has succeeded with the default accuracy after the estimation
\* raised
C26_Witness ==
    /\ cp_call.op = "train_model"
    /\ cp_ret[1].status = "ok"
    /\ cp_ret[1].warned
    /\ cp_is_trained
    /\ cp_model_accuracy = Some(85)


(***************************************************************************)
(* C27: the fallback of the utilization analysis.                          *)
(***************************************************************************)
\* the metric of a resource as the fallback rule is said to read it: 50 when
\* the table has no such column or the record no value for it
MetricOr50(resource_data, resource, key) ==
    LET held == RowGet(resource_data, resource, key)
    IN  IF held.kind = "nan" THEN Num(50) ELSE held

\* the resource is among the recommendations of the result
ListedForRightsizing(result, resource) ==
    \E k \in DOMAIN result.recommendations :
        /\ result.recommendations[k].resource_id = resource.resource_id
        /\ result.recommendations[k].type = "rightsizing"

\* C27: analyze_resource_utilization never raises, and when the clustering
\* cannot run its result has an empty cluster_analysis and lists a resource
\* for rightsizing exactly when its cpu_utilization is below 30 and its
\* memory_utilization below 40, a missing metric counting as 50.
C27_FallbackRule ==
    ro_call.op = "analyze_resource_utilization" =>
        LET resource_data == ro_call.resource_data
            result == ro_ret[1]
        IN  /\ result.status = "ok"
            /\ ClusteringRaises(resource_data) =>
                   /\ DOMAIN result.cluster_analysis = {}
                   /\ \A i \in DOMAIN resource_data.rows :
                          LET resource == resource_data.rows[i]
                              cpu == MetricOr50(resource_data, resource, "cpu_utilization")
                              memory == MetricOr50(resource_data, resource,
                                                   "memory_utilization")
                          IN  (cpu.kind = "number" /\ memory.kind = "number") =>
                                  (ListedForRightsizing(result, resource)
                                      <=> (cpu.value < 30 /\ memory.value < 40))

(***************************************************************************)
(* C28: the analysis calls and the fields of the optimizers.               *)
(***************************************************************************)
ResourceAnalysisCalls ==
    {"analyze_resource_utilization", "generate_rightsizing_recommendations",
     "analyze_storage_optimization"}
EnterpriseAnalysisCalls ==
    {"analyze_budget_category", "optimize_for_budget", "detect_cost_anomalies"}

\* C28: each of the six analysis calls of the Optimization Rule Engine leaves
\* every field of the optimizer instance it is called on as it was.
C28_AnalysisCallsStateless ==
    [][/\ ro_call'.op \in ResourceAnalysisCalls => ro_fields' = ro_fields
       /\ eo_call'.op \in EnterpriseAnalysisCalls => eo_fields' = eo_fields]_vars

(***************************************************************************)
(* C29: a retraining that fails.                                           *)
(***************************************************************************)
\* C29: a train_model call that fails on a forecaster already trained leaves
\* model, model_accuracy and last_training_date as the last successful
\* training set them, a predict on a trained forecaster is answered by a
\* fitted model, and whenever is_trained is true the model is fitted.
C29_RetrainReplacesOnlyOnSuccess ==
    [][/\ (cp_is_trained /\ cp_call'.op = "train_model" /\ cp_ret'[1].status # "ok")
          => UNCHANGED <<cp_model, cp_model_accuracy, cp_last_training_date>>
       /\ (cp_is_trained /\ cp_call'.op = "predict")
          => cp_ret'[1].status # "Exception"
       /\ cp_is_trained' => (cp_model' # None /\ cp_model'[1].fitted)]_vars

(***************************************************************************)
(* C30: the rows of a detection result.                                    *)
(***************************************************************************)
\* C30: in every row detect_anomalies returns, a row that is not an anomaly
\* has severity normal and the reason 'Normal spending pattern', and a row
\* that is an anomaly has a severity other than normal and a reason that is
\* not empty.
C30_ResultRowsConsistent ==
    (ad_call.op = "detect_anomalies" /\ ad_ret[1].status = "ok") =>
        \A i \in DOMAIN ad_ret[1].rows :
            LET row == ad_ret[1].rows[i]
            IN  /\ ~row.is_anomaly =>
                      /\ row.anomaly_severity = "normal"
                      /\ row.anomaly_reason = <<"Normal spending pattern">>
                /\ row.is_anomaly =>
                      /\ row.anomaly_severity # "normal"
                      /\ row.anomaly_reason # <<>>

=============================================================================
